---- MODULE Spec2Model ----
(***************************************************************************)
(* Model of the analytics functions of the stock-market dashboard:         *)
(*   pages/4_Risk_Analysis_Wizard.py  indicators, Greed-Fear Index,        *)
(*                                    Sentiment Score, volatility metrics  *)
(*   pages/sectorplot.py              sector value proxy, macro processing,*)
(*                                    heatmap percentile ranks, correlation*)
(*   pages/macroplot.py               stock-vs-macro correlation           *)
(*                                                                         *)
(* Floating-point values are modelled exactly: a value is NaN, +inf, -inf  *)
(* or a number a + b*sqrt(v) with a, b rationals (the square root comes    *)
(* from the rolling standard deviations only).                             *)
(***************************************************************************)
EXTENDS Integers, Sequences, FiniteSets, TLC

VARIABLES
    pc,          \* position of the page's main() that is being run
    tables,      \* the DataFrame objects of the risk page, by object identity
    df,          \* main's variable df: the identity of the table it refers to
    loaded,      \* the table as read from the CSV file (value before any call)
    sect,        \* state of the sector page (sectorplot.main)
    corr         \* state of the correlation computations

vars == <<pc, tables, df, loaded, sect, corr>>

(***************************************************************************)
(* Rationals <<n, d>> with d > 0, always reduced.                          *)
(***************************************************************************)
Abs(n) == IF n < 0 THEN -n ELSE n

RECURSIVE GCD(_, _)
GCD(a, b) == IF b = 0 THEN a ELSE GCD(b, a % b)

RNorm(n, d) ==
    LET g == GCD(Abs(n), Abs(d))
        s == IF d < 0 THEN -1 ELSE 1
    IN  <<(s * n) \div g, (s * d) \div g>>

R(n) == <<n, 1>>
Zero == R(0)
RAdd(x, y) ==
    LET g == GCD(x[2], y[2])
    IN  RNorm(x[1] * (y[2] \div g) + y[1] * (x[2] \div g), (x[2] \div g) * y[2])
RNeg(x) == <<-x[1], x[2]>>
RSub(x, y) == RAdd(x, RNeg(y))
\* products reduce crosswise first, so that intermediate values stay small
RMul(x, y) ==
    LET g1 == GCD(Abs(x[1]), y[2])
        g2 == GCD(Abs(y[1]), x[2])
    IN  IF x[1] = 0 \/ y[1] = 0 THEN <<0, 1>>
        ELSE <<(x[1] \div g1) * (y[1] \div g2), (x[2] \div g2) * (y[2] \div g1)>>
RInv(x) == IF x[1] < 0 THEN <<-x[2], -x[1]>> ELSE <<x[2], x[1]>>
RDiv(x, y) == RMul(x, RInv(y))
RSign(x) == IF x[1] > 0 THEN 1 ELSE IF x[1] < 0 THEN -1 ELSE 0
RLess(x, y) == LET g == GCD(x[2], y[2]) IN x[1] * (y[2] \div g) < y[1] * (x[2] \div g)
RLeq(x, y) == ~RLess(y, x)

\* floor of the square root of n >= 0, by bisection on lo*lo <= n < hi*hi
RECURSIVE ISqrtIn(_, _, _)
ISqrtIn(n, lo, hi) ==
    IF hi - lo <= 1 THEN lo
    ELSE LET mid == (lo + hi) \div 2
         IN  IF mid * mid <= n THEN ISqrtIn(n, mid, hi) ELSE ISqrtIn(n, lo, mid)

ISqrt(n) == IF n < 2 THEN n ELSE ISqrtIn(n, 1, IF n < 46340 THEN n ELSE 46340)
IsSquare(n) == ISqrt(n) * ISqrt(n) = n

(***************************************************************************)
(* IEEE-754 values as the pandas/numpy operations of the source produce    *)
(* them: NaN, the two infinities, and finite numbers a + b*sqrt(v) with a, *)
(* b rationals and v an integer > 1 freed of square factors (v = 0 when    *)
(* b = 0).                                                                 *)
(***************************************************************************)
NaN == [k |-> "nan", a |-> Zero, b |-> Zero, v |-> 0]
PInf == [k |-> "pinf", a |-> Zero, b |-> Zero, v |-> 0]
NInf == [k |-> "ninf", a |-> Zero, b |-> Zero, v |-> 0]
Num(a) == [k |-> "num", a |-> a, b |-> Zero, v |-> 0]
I(n) == Num(R(n))

SmallPrimes == <<2, 3, 5, 7, 11, 13, 17, 19>>

\* <<m, f>> with n = m * f * f, m free of the squares of the small primes
RECURSIVE StripSquares(_, _, _)
StripSquares(n, f, i) ==
    IF i > Len(SmallPrimes) THEN (IF IsSquare(n) THEN <<1, f * ISqrt(n)>> ELSE <<n, f>>)
    ELSE LET p == SmallPrimes[i]
         IN  IF n % (p * p) = 0 THEN StripSquares(n \div (p * p), f * p, i)
             ELSE StripSquares(n, f, i + 1)

\* a + b*sqrt(w) for rationals b and w >= 0; a rational square root is folded into a
Surd(a, b, w) ==
    IF b = Zero \/ w = Zero THEN Num(a)
    ELSE LET P == StripSquares(w[1], 1, 1)
             Q == StripSquares(w[2], 1, 1)
             rad == P[1] * Q[1]
             coef == RMul(b, <<P[2], Q[2] * Q[1]>>)
         IN  IF rad = 1 THEN Num(RAdd(a, coef))
             ELSE [k |-> "num", a |-> a, b |-> coef, v |-> rad]

IsNaN(x) == x.k = "nan"
IsNum(x) == x.k = "num"

\* sign of the finite number a + b*sqrt(v)
NumSign(x) ==
    LET sa == RSign(x.a)
        sb == RSign(x.b)
    IN  IF sb = 0 THEN sa
        ELSE IF sa = 0 THEN sb
        ELSE IF sa = sb THEN sa
        ELSE LET a2 == RMul(x.a, x.a)
                 b2v == RMul(RMul(x.b, x.b), R(x.v))
             IN  IF RLess(b2v, a2) THEN sa ELSE IF RLess(a2, b2v) THEN sb ELSE 0

\* sign of a value that is not NaN
FSign(x) == CASE x.k = "pinf" -> 1 [] x.k = "ninf" -> -1 [] x.k = "num" -> NumSign(x)

FNeg(x) ==
    CASE x.k = "nan" -> NaN
      [] x.k = "pinf" -> NInf
      [] x.k = "ninf" -> PInf
      [] x.k = "num" -> [k |-> "num", a |-> RNeg(x.a), b |-> RNeg(x.b), v |-> x.v]

\* the coefficient c with b*sqrt(v) = c*sqrt(u), for v*u a square
CoefOver(x, u) ==
    IF x.b = Zero THEN Zero
    ELSE IF x.v = u THEN x.b
    ELSE RMul(x.b, <<ISqrt(x.v * u), u>>)
Commensurable(x, y) == x.b = Zero \/ y.b = Zero \/ x.v = y.v \/ IsSquare(x.v * y.v)

FAdd(x, y) ==
    CASE x.k = "nan" \/ y.k = "nan" -> NaN
      [] x.k = "pinf" /\ y.k = "ninf" -> NaN
      [] x.k = "ninf" /\ y.k = "pinf" -> NaN
      [] x.k \in {"pinf", "ninf"} /\ (y.k = x.k \/ y.k = "num") -> x
      [] x.k = "num" /\ y.k \in {"pinf", "ninf"} -> y
      [] x.k = "num" /\ y.k = "num" /\ x.b = Zero ->
            [k |-> "num", a |-> RAdd(x.a, y.a), b |-> y.b, v |-> y.v]
      [] x.k = "num" /\ y.k = "num" /\ x.b # Zero /\ y.b = Zero ->
            [k |-> "num", a |-> RAdd(x.a, y.a), b |-> x.b, v |-> x.v]
      [] x.k = "num" /\ y.k = "num" /\ x.b # Zero /\ y.b # Zero /\ Commensurable(x, y) ->
            Surd(RAdd(x.a, y.a), RAdd(CoefOver(x, y.v), y.b), R(y.v))

FSub(x, y) == FAdd(x, FNeg(y))

\* x * r for a rational scalar r
FMulR(x, r) ==
    CASE x.k = "nan" -> NaN
      [] x.k \in {"pinf", "ninf"} /\ r = Zero -> NaN
      [] x.k \in {"pinf", "ninf"} /\ r # Zero -> IF FSign(x) * RSign(r) > 0 THEN PInf ELSE NInf
      [] x.k = "num" -> Surd(RMul(x.a, r), RMul(x.b, r), R(x.v))

\* x * sqrt(n) for an integer n > 0 (np.sqrt(252) in the source)
FMulSqrt(x, n) ==
    CASE x.k = "nan" -> NaN
      [] x.k = "num" /\ x.b = Zero -> Surd(Zero, x.a, R(n))
      [] x.k = "num" /\ x.b # Zero /\ x.a = Zero -> Surd(Zero, x.b, R(x.v * n))

FDiv(x, y) ==
    CASE x.k = "nan" \/ y.k = "nan" -> NaN
      [] x.k \in {"pinf", "ninf"} /\ y.k \in {"pinf", "ninf"} -> NaN
      [] x.k \in {"pinf", "ninf"} /\ y.k = "num" ->
            IF FSign(x) * (IF NumSign(y) < 0 THEN -1 ELSE 1) > 0 THEN PInf ELSE NInf
      [] x.k = "num" /\ y.k \in {"pinf", "ninf"} -> Num(Zero)
      [] x.k = "num" /\ y.k = "num" /\ NumSign(y) = 0 ->
            IF NumSign(x) = 0 THEN NaN ELSE IF NumSign(x) > 0 THEN PInf ELSE NInf
      [] x.k = "num" /\ y.k = "num" /\ NumSign(y) # 0 /\ y.b = Zero -> FMulR(x, RInv(y.a))
      [] x.k = "num" /\ y.k = "num" /\ NumSign(y) # 0 /\ y.b # Zero /\ Commensurable(x, y) ->
            LET u == R(y.v)
                bx == CoefOver(x, y.v)
                D == RSub(RMul(y.a, y.a), RMul(RMul(y.b, y.b), u))
                na == RSub(RMul(x.a, y.a), RMul(RMul(bx, y.b), u))
                nb == RSub(RMul(bx, y.a), RMul(x.a, y.b))
            IN  Surd(RDiv(na, D), RDiv(nb, D), u)

\* equality of values as numbers (NaN is equal to nothing under IEEE-754;
\* FSame also identifies two NaN, as a comparison of table cells does)
FEq(x, y) ==
    /\ ~IsNaN(x) /\ ~IsNaN(y)
    /\ IF IsNum(x) /\ IsNum(y) THEN NumSign(FSub(x, y)) = 0 ELSE x.k = y.k
FSame(x, y) == (IsNaN(x) /\ IsNaN(y)) \/ FEq(x, y)

\* comparisons as IEEE-754 defines them: every comparison with NaN is false
FGt(x, y) == ~IsNaN(x) /\ ~IsNaN(y) /\ ~FEq(x, y) /\ FSign(FSub(x, y)) > 0
FLt(x, y) == FGt(y, x)
FGe(x, y) == FEq(x, y) \/ FGt(x, y)
FLe(x, y) == FGe(y, x)

FAbs(x) == IF IsNaN(x) THEN NaN ELSE IF FSign(x) < 0 THEN FNeg(x) ELSE x

\* np.clip(x, lo, hi): NaN stays NaN
np_clip(x, lo, hi) ==
    IF IsNaN(x) THEN NaN ELSE IF FLt(x, lo) THEN lo ELSE IF FGt(x, hi) THEN hi ELSE x

\* np.sign(x)
np_sign(x) == IF IsNaN(x) THEN NaN ELSE I(FSign(x))


(***************************************************************************)
(* pandas Series operations used by the source.  A Series is a sequence of *)
(* values; a DataFrame is a function from column names to Series.          *)
(***************************************************************************)
\* the Series with the values of f, computed once
Mat(f) == SubSeq(f, 1, Cardinality(DOMAIN f))

\* element-wise operations on one, two, three and four aligned Series
SeriesMap(s, Op(_)) == Mat([t \in DOMAIN s |-> Op(s[t])])
SeriesZip(s, u, Op(_, _)) == Mat([t \in DOMAIN s |-> Op(s[t], u[t])])
SeriesZip3(s, u, v, Op(_, _, _)) == Mat([t \in DOMAIN s |-> Op(s[t], u[t], v[t])])
SeriesZip4(s, u, v, w, Op(_, _, _, _)) ==
    Mat([t \in DOMAIN s |-> Op(s[t], u[t], v[t], w[t])])

\* s.shift(periods)
shift(s, periods) == Mat([t \in DOMAIN s |-> IF t <= periods THEN NaN ELSE s[t - periods]])

\* s.diff()
diff(s) == SeriesZip(s, shift(s, 1), FSub)

\* s.pct_change(periods): s / s.shift(periods) - 1
RelativeChange(x, prev) == FSub(FDiv(x, prev), I(1))
pct_change(s, periods) == SeriesZip(s, shift(s, periods), RelativeChange)

\* delta.where(delta > 0, 0) and delta.where(delta < 0, 0): the value where
\* the condition holds, else 0 (also where the value is NaN)
KeepPositive(x) == IF FGt(x, I(0)) THEN x ELSE I(0)
KeepNegative(x) == IF FLt(x, I(0)) THEN x ELSE I(0)
where_gt0(s) == SeriesMap(s, KeepPositive)
where_lt0(s) == SeriesMap(s, KeepNegative)

\* sum of the values s[lo..hi], by halving the range
RECURSIVE RSum(_, _, _)
RSum(s, lo, hi) ==
    IF lo > hi THEN Zero
    ELSE IF lo = hi THEN s[lo].a
    ELSE RAdd(RSum(s, lo, (lo + hi) \div 2), RSum(s, (lo + hi) \div 2 + 1, hi))

\* sum of the squares of the values s[lo..hi]
RECURSIVE RSumSq(_, _, _)
RSumSq(s, lo, hi) ==
    IF lo > hi THEN Zero
    ELSE IF lo = hi THEN RMul(s[lo].a, s[lo].a)
    ELSE RAdd(RSumSq(s, lo, (lo + hi) \div 2), RSumSq(s, (lo + hi) \div 2 + 1, hi))

\* mean of the values s[lo..hi]
window_mean(s, lo, hi) == Num(RMul(RSum(s, lo, hi), <<1, hi - lo + 1>>))

\* variance (ddof = 1) of n values with sum sm and sum of squares sq
SampleVariance(n, sm, sq) == RDiv(RSub(RMul(R(n), sq), RMul(sm, sm)), R(n * (n - 1)))

\* standard deviation (ddof = 1) of the values s[lo..hi]
window_std(s, lo, hi) ==
    Surd(Zero, R(1), SampleVariance(hi - lo + 1, RSum(s, lo, hi), RSumSq(s, lo, hi)))

\* the first bar of the window of w bars ending at bar t, cut short at the
\* start of the Series
WindowStart(t, w) == IF t > w THEN t - w + 1 ELSE 1

\* s.rolling(window=w, min_periods=1).mean(): a window cut short at the start
\* of the Series counts too
rolling_mean_min_periods_1(s, w) ==
    Mat([t \in DOMAIN s |->
        IF \A j \in WindowStart(t, w)..t : IsNum(s[j])
        THEN window_mean(s, WindowStart(t, w), t)
        ELSE NaN])

\* the window s[t-w+1..t] holds w observations, none of them NaN
\* (min_periods defaults to the window)
FullWindow(s, w, t) == t >= w /\ \A j \in (t - w + 1)..t : IsNum(s[j])

\* s.rolling(window=w).mean()
rolling_mean(s, w) ==
    Mat([t \in DOMAIN s |-> IF FullWindow(s, w, t) THEN window_mean(s, t - w + 1, t) ELSE NaN])

\* s.rolling(window=w).std()
rolling_std(s, w) ==
    Mat([t \in DOMAIN s |-> IF FullWindow(s, w, t) THEN window_std(s, t - w + 1, t) ELSE NaN])

\* df[cols].max(axis=1): row-wise maximum skipping NaN
FMax2(x, y) == IF IsNaN(x) THEN y ELSE IF IsNaN(y) THEN x ELSE IF FGt(y, x) THEN y ELSE x
FMax3(x, y, z) == FMax2(FMax2(x, y), z)
row_max(s1, s2, s3) == SeriesZip3(s1, s2, s3, FMax3)

(***************************************************************************)
(* pages/4_Risk_Analysis_Wizard.py : calculate_greed_fear_index            *)
(***************************************************************************)
RSI_PERIOD == 14
BB_PERIOD == 20
VOL_PERIOD == 20
MOM_PERIOD == 10

\* 100 - (100 / rs): the ratio without the 1 added to it
RSI_Value_NoOffset(rs) == FSub(I(100), FDiv(I(100), rs))

\* 100 - (100 / (1 + rs))
RSI_Value(rs) == FSub(I(100), FDiv(I(100), FAdd(I(1), rs)))

calculate_rsi(prices, period) ==
    SeriesMap(SeriesZip(rolling_mean(where_gt0(diff(prices)), period),
                        rolling_mean(SeriesMap(where_lt0(diff(prices)), FNeg), period),
                        FDiv),
              RSI_Value)

\* (prices - lower_band) / (upper_band - lower_band), the bands 2 std around sma
BB_Position_Value(price, sma, std) ==
    FDiv(FSub(price, FSub(sma, FMulR(std, R(2)))),
         FSub(FAdd(sma, FMulR(std, R(2))), FSub(sma, FMulR(std, R(2)))))

bollinger_position(prices, period) ==
    SeriesZip3(prices, rolling_mean(prices, period), rolling_std(prices, period),
               BB_Position_Value)

volume_surge(volume, period) == SeriesZip(volume, rolling_mean(volume, period), FDiv)

price_momentum(prices, period) == pct_change(prices, period)

BB_Norm_Value(x) == FMulR(x, R(100))
Volume_Norm_Value(x) == np_clip(FMulR(FSub(x, Num(<<1, 2>>)), R(100)), I(0), I(100))
Momentum_Norm_Value(x) == np_clip(FMulR(FAdd(x, Num(<<1, 10>>)), R(500)), I(0), I(100))

Greed_Fear_Value(rsi, bb, vol, mom) ==
    FAdd(FAdd(FAdd(FMulR(rsi, <<3, 10>>), FMulR(bb, <<1, 4>>)),
              FMulR(vol, <<1, 4>>)),
         FMulR(mom, <<1, 5>>))

\* the columns lines 56-68 assign, from the four indicator columns
greed_fear_columns(RSI, BB_Position, Volume_Surge, Price_Momentum) ==
    [c \in {"RSI", "BB_Position", "Volume_Surge", "Price_Momentum", "RSI_Norm",
            "BB_Norm", "Volume_Norm", "Momentum_Norm", "Greed_Fear_Index"} |->
        CASE c = "RSI" -> RSI
          [] c = "BB_Position" -> BB_Position
          [] c = "Volume_Surge" -> Volume_Surge
          [] c = "Price_Momentum" -> Price_Momentum
          [] c = "RSI_Norm" -> RSI
          [] c = "BB_Norm" -> SeriesMap(BB_Position, BB_Norm_Value)
          [] c = "Volume_Norm" -> SeriesMap(Volume_Surge, Volume_Norm_Value)
          [] c = "Momentum_Norm" -> SeriesMap(Price_Momentum, Momentum_Norm_Value)
          [] c = "Greed_Fear_Index" ->
                SeriesZip4(RSI, SeriesMap(BB_Position, BB_Norm_Value),
                           SeriesMap(Volume_Surge, Volume_Norm_Value),
                           SeriesMap(Price_Momentum, Momentum_Norm_Value),
                           Greed_Fear_Value)]

\* the same with df['Volume'] = volume_surge(df['Volume']): the ratio is
\* written over the input column
calculate_greed_fear_index_over_volume(t) ==
    [c \in {"Volume"} |-> volume_surge(t["Volume"], VOL_PERIOD)]
    @@ greed_fear_columns(calculate_rsi(t["Close"], RSI_PERIOD),
                          bollinger_position(t["Close"], BB_PERIOD),
                          volume_surge(t["Volume"], VOL_PERIOD),
                          price_momentum(t["Close"], MOM_PERIOD)) @@ t

\* the same with the columns the table already has left as they are
calculate_greed_fear_index_keeping(t) ==
    t @@ greed_fear_columns(calculate_rsi(t["Close"], RSI_PERIOD),
                            bollinger_position(t["Close"], BB_PERIOD),
                            volume_surge(t["Volume"], VOL_PERIOD),
                            price_momentum(t["Close"], MOM_PERIOD))

\* the table after the call: the columns are assigned on the table passed in
calculate_greed_fear_index(t) ==
    greed_fear_columns(calculate_rsi(t["Close"], RSI_PERIOD),
                       bollinger_position(t["Close"], BB_PERIOD),
                       volume_surge(t["Volume"], VOL_PERIOD),
                       price_momentum(t["Close"], MOM_PERIOD)) @@ t

(***************************************************************************)
(* pages/4_Risk_Analysis_Wizard.py : calculate_sentiment_score             *)
(***************************************************************************)
\* np.where(c, x, y) on one element
np_where(c, x, y) == IF c THEN x ELSE y

\* np.where(Price_Change > 0, ratio, -ratio) for ratio = volume / 20-bar mean
Volume_Price_Sentiment_Value(change, volume, vol_sma) ==
    np_where(FGt(change, I(0)), FDiv(volume, vol_sma), FNeg(FDiv(volume, vol_sma)))

MA_Sentiment_Value(ma5, ma20) == np_where(FGt(ma5, ma20), I(1), I(-1))

RSI_Sentiment_Value(rsi) ==
    np_where(FGt(rsi, I(70)), I(-1), np_where(FLt(rsi, I(30)), I(1), I(0)))

BB_Sentiment_Value(bb) ==
    np_where(FGt(bb, Num(<<4, 5>>)), I(-1), np_where(FLt(bb, Num(<<1, 5>>)), I(1), I(0)))

\* the four components added up without their weights
Technical_Sentiment_Unweighted(ma, rsi, bb, pcma) ==
    FAdd(FAdd(FAdd(ma, rsi), bb), np_sign(pcma))

Technical_Sentiment_Value(ma, rsi, bb, pcma) ==
    FAdd(FAdd(FAdd(FMulR(ma, <<3, 10>>), FMulR(rsi, <<1, 4>>)), FMulR(bb, <<1, 4>>)),
         FMulR(np_sign(pcma), <<1, 5>>))

Times100(x) == FMulR(x, R(100))

\* the columns lines 77-116 assign
sentiment_columns(Price_Change, Price_Change_MA, Volume_Price_Sentiment, MA_5, MA_20, MA_Sentiment, RSI_Sentiment, BB_Sentiment, Technical_Sentiment) ==
    [c \in {"Price_Change", "Price_Change_MA", "Volume_Price_Sentiment", "MA_5", "MA_20",
            "MA_Sentiment", "RSI_Sentiment", "BB_Sentiment", "Technical_Sentiment",
            "Sentiment_Score"} |->
        CASE c = "Price_Change" -> Price_Change
          [] c = "Price_Change_MA" -> Price_Change_MA
          [] c = "Volume_Price_Sentiment" -> Volume_Price_Sentiment
          [] c = "MA_5" -> MA_5
          [] c = "MA_20" -> MA_20
          [] c = "MA_Sentiment" -> MA_Sentiment
          [] c = "RSI_Sentiment" -> RSI_Sentiment
          [] c = "BB_Sentiment" -> BB_Sentiment
          [] c = "Technical_Sentiment" -> Technical_Sentiment
          [] c = "Sentiment_Score" ->
                rolling_mean(SeriesMap(Technical_Sentiment, Times100), 3)]

technical_sentiment(MA_Sentiment, RSI_Sentiment, BB_Sentiment, Price_Change_MA) ==
    SeriesZip4(MA_Sentiment, RSI_Sentiment, BB_Sentiment, Price_Change_MA,
               Technical_Sentiment_Value)

sentiment_components(Price_Change, Price_Change_MA, Volume_Price_Sentiment, MA_5, MA_20, MA_Sentiment, RSI_Sentiment, BB_Sentiment) ==
    sentiment_columns(Price_Change, Price_Change_MA, Volume_Price_Sentiment, MA_5, MA_20,
                      MA_Sentiment, RSI_Sentiment, BB_Sentiment,
                      technical_sentiment(MA_Sentiment, RSI_Sentiment, BB_Sentiment,
                                          Price_Change_MA))

sentiment_inputs(t, Price_Change, MA_5, MA_20) ==
    sentiment_components(Price_Change, rolling_mean(Price_Change, 5),
                         SeriesZip3(Price_Change, t["Volume"], rolling_mean(t["Volume"], 20),
                                    Volume_Price_Sentiment_Value),
                         MA_5, MA_20,
                         SeriesZip(MA_5, MA_20, MA_Sentiment_Value),
                         SeriesMap(t["RSI"], RSI_Sentiment_Value),
                         SeriesMap(t["BB_Position"], BB_Sentiment_Value))

\* reads the columns RSI and BB_Position of the table passed in
calculate_sentiment_score(t) ==
    sentiment_inputs(t, pct_change(t["Close"], 1), rolling_mean(t["Close"], 5),
                     rolling_mean(t["Close"], 20)) @@ t

(***************************************************************************)
(* pages/4_Risk_Analysis_Wizard.py : calculate_volatility_metrics          *)
(***************************************************************************)
HV_PERIOD == 20
ATR_PERIOD == 14
BBW_PERIOD == 20
TRADING_DAYS == 252

\* std * np.sqrt(252) * 100
Annualized_Value(std) == FMulR(FMulSqrt(std, TRADING_DAYS), R(100))

historical_volatility(prices, period) ==
    SeriesMap(rolling_std(pct_change(prices, 1), period), Annualized_Value)

\* np.abs(x - y)
AbsDifference(x, y) == FAbs(FSub(x, y))

high_low(high, low) == SeriesZip(high, low, FSub)
high_prev_close(high, close) == SeriesZip(high, shift(close, 1), AbsDifference)
low_prev_close(low, close) == SeriesZip(low, shift(close, 1), AbsDifference)

true_range(high, low, close) ==
    row_max(high_low(high, low), high_prev_close(high, close), low_prev_close(low, close))

average_true_range(high, low, close, period) ==
    rolling_mean(true_range(high, low, close), period)

\* (x / y) * 100
Percentage_Value(x, y) == FMulR(FDiv(x, y), R(100))

\* (std * 4 / sma) * 100
BB_Width_Value(std, sma) == FMulR(FDiv(FMulR(std, R(4)), sma), R(100))

bollinger_width(prices, period) ==
    SeriesZip(rolling_std(prices, period), rolling_mean(prices, period), BB_Width_Value)

\* the columns lines 125-139 assign
volatility_columns(t, ATR) ==
    [c \in {"Returns", "Historical_Volatility", "H-L", "H-PC", "L-PC", "TR", "ATR",
            "ATR_Percentage", "BB_Width"} |->
        CASE c = "Returns" -> pct_change(t["Close"], 1)
          [] c = "Historical_Volatility" -> historical_volatility(t["Close"], HV_PERIOD)
          [] c = "H-L" -> high_low(t["High"], t["Low"])
          [] c = "H-PC" -> high_prev_close(t["High"], t["Close"])
          [] c = "L-PC" -> low_prev_close(t["Low"], t["Close"])
          [] c = "TR" -> true_range(t["High"], t["Low"], t["Close"])
          [] c = "ATR" -> ATR
          [] c = "ATR_Percentage" -> SeriesZip(ATR, t["Close"], Percentage_Value)
          [] c = "BB_Width" -> bollinger_width(t["Close"], BBW_PERIOD)]

calculate_volatility_metrics(t) ==
    volatility_columns(t, average_true_range(t["High"], t["Low"], t["Close"], ATR_PERIOD)) @@ t

(***************************************************************************)
(* The OHLCV tables main() of the risk page reads (pd.read_csv): price     *)
(* series of n bars with up to three levels a, b, c changing at bars k and *)
(* m, a volume changing at bar m, and a high h above the bar's body.       *)
(***************************************************************************)
MaxBars == 22
Prices == {1, 2}
Volumes == {0, 4}
BarCounts == {MaxBars - 14, MaxBars - 1, MaxBars}
CloseAt(t, a, b, c, k, m) == IF t < k THEN a ELSE IF t < m THEN b ELSE c

read_csv(n, a, b, c, k, m, v1, v2, h) ==
    LET cl(t) == CloseAt(t, a, b, c, k, m)
        op(t) == IF t = 1 THEN cl(1) ELSE cl(t - 1)
        mx(t) == IF op(t) > cl(t) THEN op(t) ELSE cl(t)
        mn(t) == IF op(t) < cl(t) THEN op(t) ELSE cl(t)
    IN  [col \in {"Open", "High", "Low", "Close", "Volume"} |->
            Mat([t \in 1..n |->
                CASE col = "Open" -> I(op(t))
                  [] col = "High" -> I(mx(t) + h)
                  [] col = "Low" -> I(mn(t))
                  [] col = "Close" -> I(cl(t))
                  [] col = "Volume" -> I(IF t < m THEN v1 ELSE v2)])]

InputTables ==
    {read_csv(n, a, b, c, k, m, v1, v2, h) :
        n \in BarCounts, a \in Prices, b \in Prices, c \in Prices,
        k \in {2, MaxBars - 12}, m \in {MaxBars - 1, MaxBars, MaxBars + 1},
        v1 \in Volumes, v2 \in Volumes, h \in {0, 1}}

(***************************************************************************)
(* main() of the risk page, lines 331-398: the three calls in order, each  *)
(* on the table main's df refers to; each returns the table it was given;  *)
(* then the plots and status texts of the scores.                          *)
(***************************************************************************)
NoSect == [op |-> "off"]
NoCorr == [op |-> "off"]

InitRisk ==
    /\ pc = "loaded"
    /\ df = 1
    /\ \E t \in InputTables : tables = [o \in {1} |-> t] /\ loaded = t
    /\ sect = NoSect
    /\ corr = NoCorr

GreedFear ==
    /\ pc = "loaded"
    /\ tables' = [tables EXCEPT ![df] = calculate_greed_fear_index(@)]
    /\ pc' = "greed_fear"
    /\ UNCHANGED <<df, loaded, sect, corr>>

Sentiment ==
    /\ pc = "greed_fear"
    /\ tables' = [tables EXCEPT ![df] = calculate_sentiment_score(@)]
    /\ pc' = "sentiment"
    /\ UNCHANGED <<df, loaded, sect, corr>>

Volatility ==
    /\ pc = "sentiment"
    /\ tables' = [tables EXCEPT ![df] = calculate_volatility_metrics(@)]
    /\ pc' = "volatility"
    /\ UNCHANGED <<df, loaded, sect, corr>>

\* create_greed_fear_plot lines 151-161: the marker colour of one value with
\* the thresholds counted as below them
greed_fear_color_exclusive(value) ==
    IF FGt(value, I(80)) THEN "red"
    ELSE IF FGt(value, I(60)) THEN "orange"
    ELSE IF FGt(value, I(40)) THEN "yellow"
    ELSE IF FGt(value, I(20)) THEN "lightblue"
    ELSE "blue"

\* create_greed_fear_plot lines 151-161: the marker colour of one value
greed_fear_color(value) ==
    IF FGe(value, I(80)) THEN "red"
    ELSE IF FGe(value, I(60)) THEN "orange"
    ELSE IF FGe(value, I(40)) THEN "yellow"
    ELSE IF FGe(value, I(20)) THEN "lightblue"
    ELSE "blue"

\* main lines 366-376: the status text of the latest Greed_Fear_Index
greed_fear_status(current_gf) ==
    IF FGe(current_gf, I(80)) THEN "Extreme Greed"
    ELSE IF FGe(current_gf, I(60)) THEN "Greed"
    ELSE IF FGe(current_gf, I(40)) THEN "Neutral"
    ELSE IF FGe(current_gf, I(20)) THEN "Fear"
    ELSE "Extreme Fear"

\* create_sentiment_plot lines 196-208: the marker colour of one value
sentiment_color(value) ==
    IF IsNaN(value) THEN "gray"
    ELSE IF FGe(value, I(50)) THEN "darkgreen"
    ELSE IF FGe(value, I(20)) THEN "lightgreen"
    ELSE IF FGe(value, I(-20)) THEN "gold"
    ELSE IF FGe(value, I(-50)) THEN "orange"
    ELSE "red"

\* main lines 386-396: the status text of the latest Sentiment_Score
sentiment_status(current_sentiment) ==
    IF FGe(current_sentiment, I(50)) THEN "Very Positive"
    ELSE IF FGe(current_sentiment, I(20)) THEN "Positive"
    ELSE IF FGe(current_sentiment, I(-20)) THEN "Neutral"
    ELSE IF FGe(current_sentiment, I(-50)) THEN "Negative"
    ELSE "Very Negative"

\* df[column].iloc[-1]
iloc_last(column) == column[Len(column)]

\* main lines 340-398: the latest scores, the two plots and the two status
\* texts of the table the three calls returned
Display ==
    /\ pc = "volatility"
    /\ corr' = [op |-> "display",
                gf_colors |-> [t \in DOMAIN tables[df]["Greed_Fear_Index"] |->
                                  greed_fear_color(tables[df]["Greed_Fear_Index"][t])],
                current_gf_status |->
                    greed_fear_status(iloc_last(tables[df]["Greed_Fear_Index"])),
                sentiment_colors |-> [t \in DOMAIN tables[df]["Sentiment_Score"] |->
                                         sentiment_color(tables[df]["Sentiment_Score"][t])],
                current_sentiment_status |->
                    sentiment_status(iloc_last(tables[df]["Sentiment_Score"]))]
    /\ pc' = "displayed"
    /\ UNCHANGED <<tables, df, loaded, sect>>

NextRisk == GreedFear \/ Sentiment \/ Volatility \/ Display

SpecRisk == InitRisk /\ [][NextRisk]_vars

\* the table main's df refers to
T == tables[df]
Bars == Len(loaded["Close"])

(***************************************************************************)
(* pages/sectorplot.py : the per-ticker CSV files of data/processed, the   *)
(* sector value proxy and the heatmap.  A date is a pair <<month, day>>;   *)
(* a table is a set of column names with a sequence of rows.               *)
(***************************************************************************)
MaxMonth == 2
MaxDay == 2
Dates == {<<m, d>> : m \in 1..MaxMonth, d \in 1..MaxDay}
FirstDate == <<1, 1>>
LastDate == <<MaxMonth, MaxDay>>
DateLeq(x, y) == x[1] < y[1] \/ (x[1] = y[1] /\ x[2] <= y[2])

\* date.dt.to_period('Y'): the dates of the model lie in one year
to_period_Y(x) == 1

\* date.dt.to_period('M')
to_period_M(x) == x[1]

\* the dates of S in ascending order
RECURSIVE SortDates(_)
SortDates(S) ==
    IF S = {} THEN <<>>
    ELSE LET mn == CHOOSE x \in S : \A y \in S : DateLeq(x, y)
         IN  <<mn>> \o SortDates(S \ {mn})

RequiredColumns == {"Date", "Open", "Close", "Volume"}

\* the bars the files hold: (Close - Open) * Volume is 2000, -500 and 0
BarA == [Open |-> 10, Close |-> 12, Volume |-> 1000]
BarB == [Open |-> 5, Close |-> 4, Volume |-> 500]
BarC == [Open |-> 8, Close |-> 8, Volume |-> 100]

\* a CSV file with the columns cols and one bar per date of ds
CsvFile(cols, ds, bar) ==
    LET sorted == SortDates(ds)
    IN  [columns |-> cols,
         rows |-> [i \in 1..Len(sorted) |->
                     [c \in cols |-> IF c = "Date" THEN sorted[i] ELSE bar[c]]]]

FirstMonth == {x \in Dates : x[1] = 1}
FirstDays == {x \in Dates : x[2] = 1}

FilesA == {CsvFile(RequiredColumns, ds, BarA) : ds \in {Dates, FirstMonth, FirstDays, {}}}
FilesB ==
    {CsvFile(RequiredColumns, Dates, BarB), CsvFile(RequiredColumns, {LastDate}, BarB),
     CsvFile(RequiredColumns \ {"Volume"}, Dates, BarB),
     CsvFile(RequiredColumns \ {"Date"}, Dates, BarB)}
FilesC ==
    {CsvFile(RequiredColumns, ds, bar) :
        ds \in {Dates, FirstDays, {LastDate}}, bar \in {BarA, BarB, BarC}}

\* the directory data/processed: ticker B may have no file, and neither may
\* ticker C, the only one of its sector
ProcessedDirs ==
    {[tk \in {"A"} |-> fa] : fa \in FilesA}
    \cup {[tk \in {"A", "C"} |-> IF tk = "A" THEN fa ELSE fc] : fa \in FilesA, fc \in FilesC}
    \cup {[tk \in {"A", "B", "C"} |-> CASE tk = "A" -> fa [] tk = "B" -> fb [] tk = "C" -> fc] :
            fa \in FilesA, fb \in FilesB, fc \in FilesC}

\* stock_info as load_data builds it from stock_info.pkl
StockInfo ==
    <<[ticker |-> "A", sector |-> "Tech"], [ticker |-> "B", sector |-> "Tech"],
      [ticker |-> "C", sector |-> "Fin"]>>

\* load_data: df['Date'] of every file is converted inside one try block, so
\* a file without that column makes the whole load return None, None, None
load_data(dir) ==
    IF \A tk \in DOMAIN dir : "Date" \in dir[tk].columns
    THEN [ok |-> TRUE, stock_info |-> StockInfo, stock_data |-> dir]
    ELSE [ok |-> FALSE, stock_info |-> <<>>, stock_data |-> <<>>]

\* (df['Date'] > start_date) & (df['Date'] < end_date): the range without
\* its two end dates
InOpenDateRange(d, start_date, end_date) ==
    DateLeq(start_date, d) /\ DateLeq(d, end_date) /\ d # start_date /\ d # end_date

\* (df['Date'] >= start_date) & (df['Date'] <= end_date)
InDateRange(d, start_date, end_date) == DateLeq(start_date, d) /\ DateLeq(d, end_date)

\* (df['Close'] - df['Open']) * df['Volume'] of one row
value_proxy(row) == (row["Close"] - row["Open"]) * row["Volume"]

\* stock_info['ticker'].tolist(): the tickers of every sector
sector_stocks_unfiltered(stock_info, sector) ==
    [i \in DOMAIN stock_info |-> stock_info[i].ticker]

\* stock_info[stock_info['sector'] == sector]['ticker'].tolist()
sector_stocks(stock_info, sector) ==
    LET sel == SelectSeq(stock_info, LAMBDA r : r.sector = sector)
    IN  [i \in 1..Len(sel) |-> sel[i].ticker]

\* the frame one ticker appends to sector_data
ticker_frame(stock_df, ticker, start_date, end_date) ==
    LET kept == SelectSeq(stock_df.rows, LAMBDA r : InDateRange(r["Date"], start_date, end_date))
    IN  [i \in 1..Len(kept) |->
            [Date |-> kept[i]["Date"], value_proxy |-> value_proxy(kept[i]), ticker |-> ticker]]

\* the loop over sector_stocks from position i on: the number of frames
\* appended and their rows in order, or the KeyError a table without a
\* required column raises
RECURSIVE sector_frames(_, _, _, _, _)
sector_frames(stock_data, tickers, i, start_date, end_date) ==
    IF i > Len(tickers) THEN [exc |-> "none", frames |-> 0, rows |-> <<>>]
    ELSE IF tickers[i] \notin DOMAIN stock_data
         THEN sector_frames(stock_data, tickers, i + 1, start_date, end_date)
    ELSE IF ~(RequiredColumns \subseteq stock_data[tickers[i]].columns)
         THEN [exc |-> "KeyError", frames |-> 0, rows |-> <<>>]
    ELSE LET rest == sector_frames(stock_data, tickers, i + 1, start_date, end_date)
         IN  IF rest.exc # "none" THEN rest
             ELSE [exc |-> "none", frames |-> rest.frames + 1,
                   rows |-> ticker_frame(stock_data[tickers[i]], tickers[i],
                                         start_date, end_date) \o rest.rows]

\* the sum of value_proxy over the rows i.. of a frame whose Date is d
RECURSIVE date_sum(_, _, _)
date_sum(rows, i, d) ==
    IF i > Len(rows) THEN 0
    ELSE (IF rows[i].Date = d THEN rows[i].value_proxy ELSE 0) + date_sum(rows, i + 1, d)

\* combined_df.groupby('Date')['value_proxy'].first(): the value of the first
\* row of each date in place of the sum
groupby_date_first(rows) ==
    LET ds == SortDates({rows[i].Date : i \in DOMAIN rows})
    IN  [j \in 1..Len(ds) |->
            [date |-> ds[j],
             value_proxy |-> rows[CHOOSE i \in DOMAIN rows :
                                     /\ rows[i].Date = ds[j]
                                     /\ \A k \in 1..(i - 1) : rows[k].Date # ds[j]].value_proxy]]

\* combined_df.groupby('Date')['value_proxy'].sum().reset_index(), renamed
groupby_date_sum(rows) ==
    LET ds == SortDates({rows[i].Date : i \in DOMAIN rows})
    IN  [j \in 1..Len(ds) |-> [date |-> ds[j], value_proxy |-> date_sum(rows, 1, ds[j])]]

\* a frame: the rows of the DataFrame returned, or the exception raised
Frame(rows) == [exc |-> "none", rows |-> rows]
Raise(e) == [exc |-> e, rows |-> <<>>]
NoFrame == [exc |-> "unset", rows |-> <<>>]

\* without the test of line 133: pd.concat of an empty list raises ValueError
calculate_sector_value_proxy_unguarded(stock_data, stock_info, sector, start_date, end_date) ==
    LET sector_data == sector_frames(stock_data, sector_stocks(stock_info, sector), 1,
                                     start_date, end_date)
    IN  IF sector_data.exc # "none" THEN Raise(sector_data.exc)
        ELSE IF sector_data.frames > 0 THEN Frame(groupby_date_sum(sector_data.rows))
        ELSE Raise("ValueError")

calculate_sector_value_proxy(stock_data, stock_info, sector, start_date, end_date) ==
    LET sector_data == sector_frames(stock_data, sector_stocks(stock_info, sector), 1,
                                     start_date, end_date)
    IN  IF sector_data.exc # "none" THEN Raise(sector_data.exc)
        ELSE IF sector_data.frames > 0 THEN Frame(groupby_date_sum(sector_data.rows))
        ELSE Frame(<<>>)

\* stock_info['sector'].unique(): the sectors in order of first appearance
RECURSIVE unique(_, _)
unique(stock_info, i) ==
    IF i > Len(stock_info) THEN <<>>
    ELSE IF \E j \in 1..(i - 1) : stock_info[j].sector = stock_info[i].sector
         THEN unique(stock_info, i + 1)
         ELSE <<stock_info[i].sector>> \o unique(stock_info, i + 1)

\* the loop over sectors from position i on
RECURSIVE all_sector_frames(_, _, _, _, _, _)
all_sector_frames(stock_data, stock_info, sectors, i, start_date, end_date) ==
    IF i > Len(sectors) THEN Frame(<<>>)
    ELSE LET sector_value == calculate_sector_value_proxy(stock_data, stock_info, sectors[i],
                                                          start_date, end_date)
             rest == all_sector_frames(stock_data, stock_info, sectors, i + 1,
                                       start_date, end_date)
         IN  IF sector_value.exc # "none" THEN sector_value
             ELSE IF rest.exc # "none" THEN rest
             ELSE Frame([j \in DOMAIN sector_value.rows |->
                            [date |-> sector_value.rows[j].date,
                             value_proxy |-> sector_value.rows[j].value_proxy,
                             sector |-> sectors[i]]] \o rest.rows)

\* sectors = stock_info['sector'] without unique(): one pass per mapping row
calculate_all_sectors_value_proxy_per_row(stock_data, stock_info, start_date, end_date) ==
    all_sector_frames(stock_data, stock_info, [i \in DOMAIN stock_info |-> stock_info[i].sector],
                      1, start_date, end_date)

calculate_all_sectors_value_proxy(stock_data, stock_info, start_date, end_date) ==
    all_sector_frames(stock_data, stock_info, unique(stock_info, 1), 1, start_date, end_date)

\* all_sector_data['month'] = ... : the column is added to the frame passed in
add_month(rows) ==
    [i \in DOMAIN rows |->
        [date |-> rows[i].date, value_proxy |-> rows[i].value_proxy,
         sector |-> rows[i].sector, month |-> to_period_M(rows[i].date)]]

\* the sum of value_proxy over the rows i.. of month m and sector s
RECURSIVE month_sector_sum(_, _, _, _)
month_sector_sum(rows, i, m, s) ==
    IF i > Len(rows) THEN 0
    ELSE (IF rows[i].month = m /\ rows[i].sector = s THEN rows[i].value_proxy ELSE 0)
         + month_sector_sum(rows, i + 1, m, s)

\* groupby(['month', 'sector']).sum() and pivot(index='sector',
\* columns='month'): a pair without rows is a missing cell
pivot(rows) ==
    [s \in {rows[i].sector : i \in DOMAIN rows} |->
        [m \in {rows[i].month : i \in DOMAIN rows} |->
            IF \E i \in DOMAIN rows : rows[i].month = m /\ rows[i].sector = s
            THEN I(month_sector_sum(rows, 1, m, s))
            ELSE NaN]]

\* heatmap_data.fillna(0)
fillna0(matrix) ==
    [s \in DOMAIN matrix |-> [m \in DOMAIN matrix[s] |->
        IF IsNaN(matrix[s][m]) THEN I(0) ELSE matrix[s][m]]]

\* the elements of a set as a sequence
RECURSIVE SetToSeq(_)
SetToSeq(S) ==
    IF S = {} THEN <<>> ELSE LET x == CHOOSE x \in S : TRUE IN <<x>> \o SetToSeq(S \ {x})

\* position of a least value of s
LeastAt(s) == CHOOSE i \in DOMAIN s : \A j \in DOMAIN s : FLe(s[i], s[j])

\* the values of a sequence in ascending order: a least one, then the rest
RECURSIVE SortValues(_), LeastFirst(_, _)
SortValues(s) == IF Len(s) = 0 THEN <<>> ELSE LeastFirst(s, LeastAt(s))
LeastFirst(s, i) == <<s[i]>> \o SortValues(SubSeq(s, 1, i - 1) \o SubSeq(s, i + 1, Len(s)))

\* the positions the value v takes in a sequence
PositionsOf(v, s) == {i \in DOMAIN s : FEq(s[i], v)}

\* the mean of a set of consecutive positions
MeanPosition(at) ==
    <<(CHOOSE i \in at : \A j \in at : i <= j) + (CHOOSE i \in at : \A j \in at : i >= j), 2>>

\* Series.rank(pct=True, ascending=False) of the value v within vals
rank_pct_descending(v, vals) ==
    RDiv(RSub(R(Len(vals) + 1), MeanPosition(PositionsOf(v, SortValues(vals)))),
         R(Len(vals)))

\* Series.rank(pct=True) of the value v within vals (ties share the average
\* rank): the mean of the positions v takes in the sorted values, over the
\* number of values
rank_pct_in(v, vals) ==
    RDiv(MeanPosition(PositionsOf(v, SortValues(vals))), R(Len(vals)))

\* a fraction r as the value r * 100
Percentage(r) == Num(RMul(r, R(100)))

\* the values of a function over the elements of a sequence of keys
ValuesAt(f, keys) == [j \in DOMAIN keys |-> f[keys[j]]]

\* DataFrame.rank(axis=1, pct=True) * 100: each row (sector) on its own
rank_pct_100_axis1(matrix) ==
    [s \in DOMAIN matrix |-> [m \in DOMAIN matrix[s] |->
        Percentage(rank_pct_in(matrix[s][m],
                               ValuesAt(matrix[s], SetToSeq(DOMAIN matrix[s]))))]]

\* heatmap_data.rank(pct=True) * 100: DataFrame.rank ranks along axis 0,
\* each column (month) on its own
rank_pct_100(matrix) ==
    [s \in DOMAIN matrix |-> [m \in DOMAIN matrix[s] |->
        Percentage(rank_pct_in(matrix[s][m],
                               ValuesAt([x \in DOMAIN matrix |-> matrix[x][m]],
                                        SetToSeq(DOMAIN matrix))))]]

\* create_sector_heatmap_visualization up to line 206
create_sector_heatmap_visualization(all_sector_data) ==
    [all_sector_data |-> add_month(all_sector_data),
     heatmap_data |-> fillna0(pivot(add_month(all_sector_data))),
     heatmap_data_normalized |-> rank_pct_100(fillna0(pivot(add_month(all_sector_data))))]

(***************************************************************************)
(* main() of sectorplot.py: load_data, then the sector analysis of the     *)
(* first tab (line 317) or the all-sectors heatmap of the second (lines    *)
(* 444-448) for the sector and date range the user picks.                  *)
(***************************************************************************)
\* the sectors the function is called for, one of them not in the mapping
Sectors == {"Tech", "Fin", "Energy"}
DateRanges == {<<FirstDate, LastDate>>, <<<<1, MaxDay>>, <<MaxMonth, 1>>>>, <<FirstDate, FirstDate>>}

InitSector ==
    /\ pc = "start"
    /\ \E dir \in ProcessedDirs :
          sect = [dir |-> dir, stock_info |-> <<>>, stock_data |-> <<>>,
                  op |-> "none", sector |-> "none",
                  start_date |-> FirstDate, end_date |-> FirstDate,
                  sector_data |-> NoFrame, all_sector_data |-> NoFrame,
                  heatmap_data |-> <<>>, heatmap_data_normalized |-> <<>>]
    /\ tables = <<>>
    /\ df = 0
    /\ loaded = <<>>
    /\ corr = NoCorr

LoadData ==
    /\ pc = "start"
    /\ LET r == load_data(sect.dir)
       IN  /\ pc' = IF r.ok THEN "data_loaded" ELSE "load_failed"
           /\ sect' = [sect EXCEPT !.stock_info = r.stock_info, !.stock_data = r.stock_data]
    /\ UNCHANGED <<tables, df, loaded, corr>>

SectorValueProxy(sector, range) ==
    /\ pc = "data_loaded"
    /\ LET r == calculate_sector_value_proxy(sect.stock_data, sect.stock_info, sector,
                                             range[1], range[2])
       IN  /\ sect' = [sect EXCEPT !.op = "sector", !.sector = sector,
                                   !.start_date = range[1], !.end_date = range[2],
                                   !.sector_data = r]
           /\ pc' = IF r.exc = "none" THEN "sector" ELSE "aborted"
    /\ UNCHANGED <<tables, df, loaded, corr>>

AllSectorsValueProxy(range) ==
    /\ pc = "data_loaded"
    /\ LET r == calculate_all_sectors_value_proxy(sect.stock_data, sect.stock_info,
                                                  range[1], range[2])
       IN  /\ sect' = [sect EXCEPT !.op = "all_sectors",
                                   !.start_date = range[1], !.end_date = range[2],
                                   !.all_sector_data = r]
           /\ pc' = IF r.exc = "none" THEN "all_sectors" ELSE "aborted"
    /\ UNCHANGED <<tables, df, loaded, corr>>

Heatmap ==
    /\ pc = "all_sectors"
    /\ Len(sect.all_sector_data.rows) > 0
    /\ LET r == create_sector_heatmap_visualization(sect.all_sector_data.rows)
       IN  sect' = [sect EXCEPT !.all_sector_data = Frame(r.all_sector_data),
                                !.heatmap_data = r.heatmap_data,
                                !.heatmap_data_normalized = r.heatmap_data_normalized]
    /\ pc' = "heatmap"
    /\ UNCHANGED <<tables, df, loaded, corr>>

NextSector ==
    \/ LoadData
    \/ \E sector \in Sectors, range \in DateRanges : SectorValueProxy(sector, range)
    \/ \E range \in DateRanges : AllSectorsValueProxy(range)
    \/ Heatmap

SpecSector == InitSector /\ [][NextSector]_vars

(***************************************************************************)
(* Correlation: calculate_correlation_analysis of pages/sectorplot.py and  *)
(* the stock-vs-macro correlation of main() in pages/macroplot.py.  A      *)
(* series is a sequence of rows in ascending date order.                   *)
(***************************************************************************)
MaxPoints == 3

\* sum of the products of the values x[lo..hi] and y[lo..hi]
RECURSIVE RSumProd(_, _, _, _)
RSumProd(x, y, lo, hi) ==
    IF lo > hi THEN Zero
    ELSE IF lo = hi THEN RMul(x[lo].a, y[lo].a)
    ELSE RAdd(RSumProd(x, y, lo, (lo + hi) \div 2), RSumProd(x, y, (lo + hi) \div 2 + 1, hi))

\* n * sum(x*y) - sum(x) * sum(y): n^2 times the covariance
Codeviation(n, sx, sy, sxy) == RSub(RMul(R(n), sxy), RMul(sx, sy))

CodeviationOf(x, y) ==
    Codeviation(Len(x), RSum(x, 1, Len(x)), RSum(y, 1, Len(y)), RSumProd(x, y, 1, Len(x)))

\* cov / sqrt(vx * vy) for vx * vy > 0
CorrelationValue(cov, vxvy) == Surd(Zero, RDiv(cov, vxvy), vxvy)

\* cov(x, y) / var(x): the slope of the regression of y on x in place of r
regression_slope(x, y) == Num(RDiv(CodeviationOf(x, y), CodeviationOf(x, x)))

\* Pearson's r of two series of numbers that are not constant
pearson_r(x, y) ==
    CorrelationValue(CodeviationOf(x, y), RMul(CodeviationOf(x, x), CodeviationOf(y, y)))

\* (x == x[0]).all(): a comparison with NaN is false
IsConstant(x) == \A i \in DOMAIN x : FEq(x[i], x[1])
HasNaN(x) == \E i \in DOMAIN x : IsNaN(x[i])

\* np.sign(a) * np.sign(b)
SignProduct(a, b) ==
    IF IsNaN(a) \/ IsNaN(b) THEN NaN ELSE I(FSign(a) * FSign(b))

\* the two-sided p-value of r over n > 2 points under the t distribution
\* with n - 2 degrees of freedom: 0 for |r| = 1, else a number in (0, 1]
\* kept as the pair it is a function of
two_sided_p(r, n) ==
    IF IsNaN(r) THEN NaN
    ELSE IF FEq(FAbs(r), I(1)) THEN I(0)
    ELSE [k |-> "p", r |-> FAbs(r), n |-> n]

pearson_with_p(r, n) == <<r, two_sided_p(r, n)>>

\* scipy.stats.pearsonr(x, y) for len(x) >= 2: <<r, p>>
pearsonr(x, y) ==
    IF IsConstant(x) \/ IsConstant(y) THEN <<NaN, NaN>>
    ELSE IF Len(x) = 2 THEN <<SignProduct(FSub(x[2], x[1]), FSub(y[2], y[1])), I(1)>>
    ELSE IF HasNaN(x) \/ HasNaN(y) THEN <<NaN, NaN>>
    ELSE pearson_with_p(pearson_r(x, y), Len(x))

\* Series.corr of two series of numbers: NaN when a variance is zero
series_corr(x, y) ==
    IF RMul(CodeviationOf(x, x), CodeviationOf(y, y)) = Zero THEN NaN ELSE pearson_r(x, y)

\* pd.merge(sector_data, macro_data, left_on='date', right_on='Date', how='inner')
merge_inner(sector_data, macro_data) ==
    SelectSeq([i \in DOMAIN sector_data |->
                 [date |-> sector_data[i].date,
                  value_proxy |-> sector_data[i].value_proxy,
                  processed_value |->
                      IF \E j \in DOMAIN macro_data : macro_data[j].Date = sector_data[i].date
                      THEN macro_data[CHOOSE j \in DOMAIN macro_data :
                                         macro_data[j].Date = sector_data[i].date].processed_value
                      ELSE NaN,
                  both |-> \E j \in DOMAIN macro_data : macro_data[j].Date = sector_data[i].date]],
              LAMBDA r : r.both)

\* len(merged_data) < 1
NoRows(merged_data) == Len(merged_data) < 1

\* len(merged_data) < 2
TooFewRows(merged_data) == Len(merged_data) < 2

\* the strength label with the thresholds themselves counted as above
correlation_strength_inclusive(correlation) ==
    IF FGe(FAbs(correlation), Num(<<7, 10>>)) THEN "Strong"
    ELSE IF FGe(FAbs(correlation), Num(<<3, 10>>)) THEN "Moderate"
    ELSE "Weak"

\* the three thresholds of the strength label
correlation_strength(correlation) ==
    IF FGt(FAbs(correlation), Num(<<7, 10>>)) THEN "Strong"
    ELSE IF FGt(FAbs(correlation), Num(<<3, 10>>)) THEN "Moderate"
    ELSE "Weak"

None == [k |-> "None"]
NoResult == [returned |-> "None", correlation |-> None, p_value |-> None, strength |-> "None"]

correlation_result(rp) ==
    [returned |-> "tuple", correlation |-> rp[1], p_value |-> rp[2],
     strength |-> correlation_strength(rp[1])]

ValueProxyColumn(merged_data) == [i \in DOMAIN merged_data |-> merged_data[i].value_proxy]
ProcessedColumn(merged_data) == [i \in DOMAIN merged_data |-> merged_data[i].processed_value]

correlate_merged(merged_data) ==
    IF TooFewRows(merged_data) THEN NoResult
    ELSE correlation_result(pearsonr(ValueProxyColumn(merged_data),
                                     ProcessedColumn(merged_data)))

calculate_correlation_analysis(sector_data, macro_data) ==
    IF Len(sector_data) = 0 \/ Len(macro_data) = 0 THEN NoResult
    ELSE correlate_merged(merge_inner(sector_data, macro_data))

\* pd.DataFrame({'value_proxy': ..., 'macro_indicator': ...}).dropna(): the
\* dates on which both series have a value that is not NaN
DropNaRows(merged_data) ==
    SelectSeq(merged_data, LAMBDA r : ~IsNaN(r.value_proxy) /\ ~IsNaN(r.processed_value))

\* macroplot.py lines 462-463: a label only above 0.3
macroplot_strength(correlation) ==
    IF FGt(FAbs(correlation), Num(<<3, 10>>))
    THEN (IF FGt(FAbs(correlation), Num(<<7, 10>>)) THEN "Strong" ELSE "Moderate")
    ELSE "None"

macroplot_result(correlation) ==
    [returned |-> "shown", correlation |-> correlation, p_value |-> None,
     strength |-> macroplot_strength(correlation)]

macroplot_aligned(aligned_data) ==
    IF Len(aligned_data) > 1
    THEN macroplot_result(series_corr(ValueProxyColumn(aligned_data),
                                      ProcessedColumn(aligned_data)))
    ELSE NoResult

\* macroplot.py lines 437-465
macroplot_correlation(value_proxy_series, macro_indicator) ==
    IF Len(value_proxy_series) > 0 /\ Len(macro_indicator) > 0
    THEN macroplot_aligned(DropNaRows(merge_inner(value_proxy_series, macro_indicator)))
    ELSE NoResult

\* the series to correlate: a sector (or stock) value proxy on a set of
\* days, flat, rising or falling then rising; a macro series from day k on
\* with values 1 and 2, its first value possibly NaN
PointDate(d) == <<1, d>>

SectorSeries ==
    {[i \in 1..Len(SortDates({PointDate(d) : d \in ds})) |->
        [date |-> SortDates({PointDate(d) : d \in ds})[i],
         value_proxy |->
            I(CASE shape = "flat" -> 1
                [] shape = "up" -> SortDates({PointDate(d) : d \in ds})[i][2]
                [] shape = "vee" ->
                      Abs(2 * SortDates({PointDate(d) : d \in ds})[i][2] - MaxPoints - 1))]] :
        ds \in SUBSET (1..MaxPoints), shape \in {"flat", "up", "vee"}}

MacroSeries ==
    {[i \in 1..(MaxPoints + 1 - k) |->
        [Date |-> PointDate(k + i - 1),
         processed_value |-> IF i = 1 /\ nan THEN NaN ELSE I(g[k + i - 1])]] :
        k \in 1..(MaxPoints + 1), g \in [1..MaxPoints -> {1, 2}], nan \in BOOLEAN}

InitCorr ==
    /\ pc = "series"
    /\ \E sd \in SectorSeries, md \in MacroSeries :
          corr = [sector_data |-> sd, macro_data |-> md, result |-> NoResult]
    /\ tables = <<>>
    /\ df = 0
    /\ loaded = <<>>
    /\ sect = NoSect

CorrelationAnalysis ==
    /\ pc = "series"
    /\ corr' = [corr EXCEPT !.result =
                    calculate_correlation_analysis(corr.sector_data, corr.macro_data)]
    /\ pc' = "sector_corr"
    /\ UNCHANGED <<tables, df, loaded, sect>>

MacroplotCorrelation ==
    /\ pc = "series"
    /\ corr' = [corr EXCEPT !.result =
                    macroplot_correlation(corr.sector_data, corr.macro_data)]
    /\ pc' = "macro_corr"
    /\ UNCHANGED <<tables, df, loaded, sect>>

NextCorr == CorrelationAnalysis \/ MacroplotCorrelation

SpecCorr == InitCorr /\ [][NextCorr]_vars

(***************************************************************************)
(* Properties of the risk page, checked under SpecRisk.  Bar t of the      *)
(* model (1-based) is index t - 1 of the source.                           *)
(***************************************************************************)
HasGFI == pc \in {"greed_fear", "sentiment", "volatility"}
HasSentiment == pc \in {"sentiment", "volatility"}

InRange(x, lo, hi) == FGe(x, I(lo)) /\ FLe(x, I(hi))

\* C1: at every bar where Greed_Fear_Index is defined it lies in [0, 100].
\* The code does not clamp BB_Position, so the formula is violated.
C1_GFI_Bounded ==
    HasGFI => \A t \in 1..Bars :
        LET g == T["Greed_Fear_Index"][t] IN IsNaN(g) \/ InRange(g, 0, 100)

\* C6: no call changes the table it was given: every table that exists
\* before a step holds the same columns and values after it.
C6_InputNotMutated ==
    [][\A o \in DOMAIN tables : tables'[o] = tables[o]]_vars

\* C9: MA_Sentiment, RSI_Sentiment, BB_Sentiment and Sentiment_Score are
\* undefined at every bar where the rolling input they are built from
\* (SMA(20), RSI(14), BollingerPosition(20), 5-bar mean of returns) is
\* undefined.  np.where puts -1 or 0 there, so the formula is violated.
C9_SentimentUndefinedWithInputs ==
    HasSentiment => \A t \in 1..Bars :
        /\ IsNaN(T["MA_20"][t]) => IsNaN(T["MA_Sentiment"][t])
        /\ IsNaN(T["RSI"][t]) => IsNaN(T["RSI_Sentiment"][t])
        /\ IsNaN(T["BB_Position"][t]) => IsNaN(T["BB_Sentiment"][t])
        /\ (\/ IsNaN(T["MA_20"][t]) \/ IsNaN(T["RSI"][t])
            \/ IsNaN(T["BB_Position"][t]) \/ IsNaN(T["Price_Change_MA"][t]))
           => IsNaN(T["Sentiment_Score"][t])

\* the seven single indicators, by the column that holds them
IndicatorColumns ==
    {"RSI", "BB_Position", "Volume_Surge", "Price_Momentum", "ATR",
     "Historical_Volatility", "BB_Width"}

IndicatorPeriod(c) ==
    CASE c = "RSI" -> RSI_PERIOD
      [] c = "BB_Position" -> BB_PERIOD
      [] c = "Volume_Surge" -> VOL_PERIOD
      [] c = "Price_Momentum" -> MOM_PERIOD
      [] c = "ATR" -> ATR_PERIOD
      [] c = "Historical_Volatility" -> HV_PERIOD
      [] c = "BB_Width" -> BBW_PERIOD

\* the indicator of column c computed on table t
Indicator(c, t) ==
    CASE c = "RSI" -> calculate_rsi(t["Close"], RSI_PERIOD)
      [] c = "BB_Position" -> bollinger_position(t["Close"], BB_PERIOD)
      [] c = "Volume_Surge" -> volume_surge(t["Volume"], VOL_PERIOD)
      [] c = "Price_Momentum" -> price_momentum(t["Close"], MOM_PERIOD)
      [] c = "ATR" -> average_true_range(t["High"], t["Low"], t["Close"], ATR_PERIOD)
      [] c = "Historical_Volatility" -> historical_volatility(t["Close"], HV_PERIOD)
      [] c = "BB_Width" -> bollinger_width(t["Close"], BBW_PERIOD)

\* the rows lo..hi of a table
Rows(t, lo, hi) == [c \in DOMAIN t |-> SubSeq(t[c], lo, hi)]

\* the value at bar t of column c is the indicator's last value on the table
\* cut down to the w bars ending at t (to all bars up to t when fewer exist)
FromLastBars(c, t, w) ==
    LET lo == IF t > w THEN t - w + 1 ELSE 1
    IN  FSame(T[c][t], Indicator(c, Rows(loaded, lo, t))[t - lo + 1])

\* the indicators whose value at bar t reads bar t - period as well
ReadsBarBefore == {"RSI", "Price_Momentum", "ATR", "Historical_Volatility"}
BarsRead(c) == IF c \in ReadsBarBefore THEN IndicatorPeriod(c) + 1 ELSE IndicatorPeriod(c)

GFI_Undefined_With_Indicator ==
    \A t \in 1..Bars :
        (\/ IsNaN(T["RSI"][t]) \/ IsNaN(T["BB_Position"][t])
         \/ IsNaN(T["Volume_Surge"][t]) \/ IsNaN(T["Price_Momentum"][t]))
        => IsNaN(T["Greed_Fear_Index"][t])

\* C10 as stated: every indicator column has the input's length, is
\* undefined before bar `period`, and where defined is a function of the
\* `period` most recent bars alone; Greed_Fear_Index is undefined where one
\* of its four indicators is.  RSI, PriceMomentum, ATR and
\* HistoricalVolatility read bar t - period too, so this is violated.
C10_ExactlyPeriodBars ==
    pc = "volatility" =>
        /\ \A c \in IndicatorColumns :
              /\ Len(T[c]) = Bars
              /\ \A t \in 1..Bars : t < IndicatorPeriod(c) => IsNaN(T[c][t])
              /\ \A t \in 1..Bars :
                    ~IsNaN(T[c][t]) => FromLastBars(c, t, IndicatorPeriod(c))
        /\ GFI_Undefined_With_Indicator

\* C10 amended: every indicator column has the input's length, is undefined
\* before bar `period`, and its value at bar t is a function of the bars
\* t - period .. t alone: of the `period` most recent bars for
\* BollingerPosition, VolumeSurge and BollingerWidth, of those and bar
\* t - period for RSI, PriceMomentum, ATR and HistoricalVolatility;
\* Greed_Fear_Index is undefined where one of its four indicators is.
C10_IndicatorWindows ==
    pc = "volatility" =>
        /\ \A c \in IndicatorColumns :
              /\ Len(T[c]) = Bars
              /\ \A t \in 1..Bars : t < IndicatorPeriod(c) => IsNaN(T[c][t])
              /\ \A t \in 1..Bars : FromLastBars(c, t, BarsRead(c))
        /\ GFI_Undefined_With_Indicator

\* all seven indicators are defined at the last bar, RSI differs from what
\* the 14 most recent bars alone give, and the index is undefined at a bar
\* where only BollingerPosition and VolumeSurge are
C10_Witness ==
    /\ pc = "volatility"
    /\ \A c \in IndicatorColumns : IsNum(T[c][Bars])
    /\ \E t \in 1..Bars : IsNum(T["RSI"][t]) /\ ~FromLastBars("RSI", t, RSI_PERIOD)
    /\ \E t \in 1..Bars :
          /\ IsNum(T["RSI"][t]) /\ IsNum(T["Price_Momentum"][t])
          /\ IsNaN(T["BB_Position"][t]) /\ IsNaN(T["Greed_Fear_Index"][t])

(***************************************************************************)
(* Properties of the sector page, checked under SpecSector.                *)
(***************************************************************************)
\* the cells <<sector, month>> of the heatmap matrix
Cells == {<<s, m>> : s \in DOMAIN sect.heatmap_data, m \in 1..MaxMonth}
HeatCells == {c \in Cells : c[2] \in DOMAIN sect.heatmap_data[c[1]]}
RawAt(c) == sect.heatmap_data[c[1]][c[2]]
PercentileAt(c) == sect.heatmap_data_normalized[c[1]][c[2]]

\* the percentile rank of cell c among the cells cs, ties sharing the
\* average rank: 100 * (smaller + (equal + 1) / 2) / count
PercentileAmong(c, cs) ==
    Num(RDiv(R(100 * (2 * Cardinality({x \in cs : FLt(RawAt(x), RawAt(c))})
                      + Cardinality({x \in cs : FEq(RawAt(x), RawAt(c))}) + 1)),
             R(2 * Cardinality(cs))))

SameMonth(c) == {x \in HeatCells : x[2] = c[2]}

GoodData(dir) == [tk \in {x \in DOMAIN dir : RequiredColumns \subseteq dir[x].columns} |-> dir[tk]]

\* C7: one table without a required column is skipped: the load delivers
\* the data, and the sector and all-sectors aggregations return the sums
\* over the remaining tables.  The load's single try block and the
\* uncaught KeyError of the aggregation violate this.
C7_FailureIsolated ==
    /\ pc # "load_failed"
    /\ sect.op = "sector" =>
          sect.sector_data =
              calculate_sector_value_proxy(GoodData(sect.dir), StockInfo, sect.sector,
                                           sect.start_date, sect.end_date)
    /\ (sect.op = "all_sectors" /\ pc # "heatmap") =>
          sect.all_sector_data =
              calculate_all_sectors_value_proxy(GoodData(sect.dir), StockInfo,
                                                sect.start_date, sect.end_date)

\* the tickers mapped to sector s that have a table in stock_data
TickersOf(s) ==
    {sect.stock_info[i].ticker : i \in {j \in DOMAIN sect.stock_info :
                                           sect.stock_info[j].sector = s}}
    \cap DOMAIN sect.stock_data

\* the bars <<ticker, row>> dated d of the instruments of sector s
BarsDated(s, d) ==
    UNION {{<<tk, i>> : i \in {j \in DOMAIN sect.stock_data[tk].rows :
                                  sect.stock_data[tk].rows[j]["Date"] = d}} :
           tk \in TickersOf(s)}

\* the sum of (Close - Open) * Volume over a set of bars
RECURSIVE BarSum(_)
BarSum(B) ==
    IF B = {} THEN 0
    ELSE LET b == CHOOSE x \in B : TRUE
             row == sect.stock_data[b[1]].rows[b[2]]
         IN  (row["Close"] - row["Open"]) * row["Volume"] + BarSum(B \ {b})

RowsDated(d) == {j \in DOMAIN sect.sector_data.rows : sect.sector_data.rows[j].date = d}

\* C8: when calculate_sector_value_proxy returns, it holds for every date d
\* with start <= d <= end on which an instrument of the sector has a bar
\* exactly one row, whose value is the sum of (Close - Open) * Volume over
\* all bars dated d of the sector's instruments present in stock_data, and
\* no row for any other date.
C8_SectorValueProxy ==
    pc = "sector" => \A d \in Dates :
        IF DateLeq(sect.start_date, d) /\ DateLeq(d, sect.end_date)
           /\ BarsDated(sect.sector, d) # {}
        THEN /\ Cardinality(RowsDated(d)) = 1
             /\ \A j \in RowsDated(d) :
                   sect.sector_data.rows[j].value_proxy = BarSum(BarsDated(sect.sector, d))
        ELSE RowsDated(d) = {}

\* the spec's example (2000 and -500 on one date give 1500) on the first
\* date of the range, a date after the range on which the sector has bars,
\* and only one of the two instruments trading on the last date of the range
C8_Witness ==
    /\ pc = "sector"
    /\ \E j \in DOMAIN sect.sector_data.rows :
          /\ sect.sector_data.rows[j].date = sect.start_date
          /\ sect.sector_data.rows[j].value_proxy = 1500
    /\ \E d \in Dates : ~DateLeq(d, sect.end_date) /\ BarsDated(sect.sector, d) # {}
    /\ Cardinality(BarsDated(sect.sector, sect.end_date)) = 1
    /\ RowsDated(sect.end_date) # {}

(***************************************************************************)
(* Properties of the correlations, checked under SpecCorr.                 *)
(***************************************************************************)
\* the dates on which both series have a row
CommonDates ==
    {corr.sector_data[i].date : i \in DOMAIN corr.sector_data}
    \cap {corr.macro_data[j].Date : j \in DOMAIN corr.macro_data}

\* the dates on which both series have a row with a value
CommonValueDates ==
    {corr.sector_data[i].date : i \in {x \in DOMAIN corr.sector_data :
                                          ~IsNaN(corr.sector_data[x].value_proxy)}}
    \cap {corr.macro_data[j].Date : j \in {x \in DOMAIN corr.macro_data :
                                              ~IsNaN(corr.macro_data[x].processed_value)}}

\* C4: when the two series share fewer than 2 dates (none, or an empty
\* series, included), calculate_correlation_analysis returns None for the
\* coefficient, the p-value and the strength; and macroplot's main shows no
\* correlation when fewer than 2 shared dates carry a value in both series.
C4_TooFewJoinedRows ==
    /\ (pc = "sector_corr" /\ Cardinality(CommonDates) < 2) =>
          /\ corr.result.returned = "None"
          /\ corr.result.correlation = None
          /\ corr.result.p_value = None
          /\ corr.result.strength = "None"
    /\ (pc = "macro_corr" /\ Cardinality(CommonValueDates) < 2) =>
          /\ corr.result.returned = "None"
          /\ corr.result.correlation = None
          /\ corr.result.strength = "None"

\* two series that are not empty and share exactly one date
C4_Witness ==
    /\ pc = "sector_corr"
    /\ Len(corr.sector_data) > 1
    /\ Len(corr.macro_data) > 1
    /\ Cardinality(CommonDates) = 1
    /\ corr.result.returned = "None"

PValueInUnit(p) == p.k = "p" \/ (p.k = "num" /\ InRange(p, 0, 1))

\* C5: a result of calculate_correlation_analysis that is not None has a
\* coefficient in [-1, 1] and a p-value in [0, 1].  A constant series makes
\* pearsonr return NaN, which is returned with the label Weak.
C5_ResultInRange ==
    (pc = "sector_corr" /\ corr.result.returned = "tuple") =>
        /\ InRange(corr.result.correlation, -1, 1)
        /\ PValueInUnit(corr.result.p_value)

(***************************************************************************)
(* Further properties of the risk page, checked under SpecRisk.            *)
(***************************************************************************)
\* gain and loss of calculate_rsi: the trailing means of the rises and of
\* the falls of the close as read from the file
AverageGain == rolling_mean(where_gt0(diff(loaded["Close"])), RSI_PERIOD)
AverageLoss == rolling_mean(SeriesMap(where_lt0(diff(loaded["Close"])), FNeg), RSI_PERIOD)

\* C11: at every bar whose fully formed window has an average loss of 0, a
\* flat window (average gain 0 too) included, RSI is 100, and
\* Greed_Fear_Index is defined there when its three other indicators are.
\* A flat window gives 0 / 0, so RSI and the index are undefined: violated.
C11_RSI_ZeroLossIs100 ==
    HasGFI => \A t \in 1..Bars :
        (IsNum(AverageLoss[t]) /\ FEq(AverageLoss[t], I(0))) =>
            /\ FEq(T["RSI"][t], I(100))
            /\ (/\ IsNum(T["BB_Position"][t]) /\ IsNum(T["Volume_Surge"][t])
                /\ IsNum(T["Price_Momentum"][t])) => IsNum(T["Greed_Fear_Index"][t])

(***************************************************************************)
(* calculate_rsi as a function of the close series alone: close series of  *)
(* MaxRsiBars bars with a first change p[1] followed by the changes p[2]   *)
(* and p[3] in turn, each a fall of 1, no change, or a rise of 1 or 2.     *)
(***************************************************************************)
MaxRsiBars == 16
ChangePatterns == [1..3 -> {-1, 0, 1, 2}]

\* the close at bar t: it starts high enough to stay positive
RECURSIVE PatternClose(_, _)
PatternClose(p, t) ==
    IF t = 1 THEN 2 * MaxRsiBars ELSE PatternClose(p, t - 1) + (IF t = 2 THEN p[1] ELSE p[2 + (t % 2)])

CloseSeries == {[t \in 1..MaxRsiBars |-> I(PatternClose(p, t))] : p \in ChangePatterns}

InitRSI ==
    /\ pc = "close_read"
    /\ df = 1
    /\ \E close \in CloseSeries :
          /\ loaded = [c \in {"Close"} |-> close]
          /\ tables = [o \in {1} |-> [c \in {"Close"} |-> close]]
    /\ sect = NoSect
    /\ corr = NoCorr

\* df['RSI'] = calculate_rsi(df['Close'])
CalculateRSI ==
    /\ pc = "close_read"
    /\ tables' = [tables EXCEPT ![df] =
                     [c \in {"RSI"} |-> calculate_rsi(@["Close"], RSI_PERIOD)] @@ @]
    /\ pc' = "rsi"
    /\ UNCHANGED <<df, loaded, sect, corr>>

NextRSI == CalculateRSI

SpecRSI == InitRSI /\ [][NextRSI]_vars

\* every change of the close inside the window of bar t is a rise
OnlyRises(t) ==
    \A j \in (IF t > RSI_PERIOD THEN t - RSI_PERIOD + 1 ELSE 2)..t :
        FGt(loaded["Close"][j], loaded["Close"][j - 1])

\* C12: at every bar where RSI is defined and the trailing loss is not 0,
\* 0 <= RSI <= 100; and at every bar with a full window in which every
\* change of the close is a rise, RSI is 100.
C12_RSI_Bounded ==
    pc = "rsi" => \A t \in 1..Bars :
        /\ (IsNum(T["RSI"][t]) /\ ~FEq(AverageLoss[t], I(0))) => InRange(T["RSI"][t], 0, 100)
        /\ (t >= RSI_PERIOD /\ OnlyRises(t)) => FEq(T["RSI"][t], I(100))

\* a series with rises and a fall in the window of one bar, where RSI lies
\* strictly between 0 and 100, and rises only in the window of its last bar,
\* where RSI is 100
C12_Witness ==
    /\ pc = "rsi"
    /\ \E t \in 1..Bars :
          /\ FGt(AverageLoss[t], I(0)) /\ FGt(AverageGain[t], I(0))
          /\ FGt(T["RSI"][t], I(0)) /\ FLt(T["RSI"][t], I(100))
    /\ OnlyRises(Bars) /\ FEq(T["RSI"][Bars], I(100))

\* C13: at every bar where Sentiment_Score is defined it lies in
\* [-100, 100].
C13_SentimentBounded ==
    HasSentiment => \A t \in 1..Bars :
        IsNaN(T["Sentiment_Score"][t]) \/ InRange(T["Sentiment_Score"][t], -100, 100)

\* a table with a positive score at one bar and a negative score at another
C13_Witness ==
    /\ HasSentiment
    /\ \E t \in 1..Bars : FGt(T["Sentiment_Score"][t], I(0))
    /\ \E t \in 1..Bars : FLt(T["Sentiment_Score"][t], I(-30))

(***************************************************************************)
(* The augmentation run twice: main() of the risk page runs the three      *)
(* calls (lines 333-335); the table they return is then given to them      *)
(* again, either as it is or cut down to the columns read from the file.   *)
(***************************************************************************)
RawColumns == {"Open", "High", "Low", "Close", "Volume"}
RerunTables == {t \in InputTables : Len(t["Close"]) = MaxBars}

InitRerun ==
    /\ pc = "loaded"
    /\ df = 1
    /\ \E t \in RerunTables : tables = [o \in {1} |-> t] /\ loaded = t
    /\ sect = [op |-> "first_run"]
    /\ corr = NoCorr

\* the second run on the table of the first, its derived columns in place
RerunInPlace ==
    /\ pc = "volatility"
    /\ sect.op = "first_run"
    /\ sect' = [op |-> "second_run", first |-> tables[df]]
    /\ pc' = "loaded"
    /\ UNCHANGED <<tables, df, loaded, corr>>

\* the second run on df[raw columns], a new table without the derived columns
RerunOnRawColumns ==
    /\ pc = "volatility"
    /\ sect.op = "first_run"
    /\ sect' = [op |-> "second_run", first |-> tables[df]]
    /\ tables' = [o \in {2} |-> [c \in RawColumns |-> tables[df][c]]] @@ tables
    /\ df' = 2
    /\ pc' = "loaded"
    /\ UNCHANGED <<loaded, corr>>

NextRerun == GreedFear \/ Sentiment \/ Volatility \/ RerunInPlace \/ RerunOnRawColumns

SpecRerun == InitRerun /\ [][NextRerun]_vars

\* C14: the table the second run of the three calls returns, on the first
\* run's table with its derived columns removed or left in place, has the
\* columns and values of the table the first run returned.
C14_Idempotent ==
    (pc = "volatility" /\ sect.op = "second_run") => T = sect.first

\* a second run on a new table cut down to the raw columns has ended, and
\* the table holds a defined Greed_Fear_Index and Sentiment_Score
C14_Witness ==
    /\ pc = "volatility"
    /\ sect.op = "second_run"
    /\ df = 2
    /\ IsNum(T["Greed_Fear_Index"][Bars])
    /\ IsNum(T["Sentiment_Score"][Bars])
    /\ IsNum(T["Historical_Volatility"][Bars])

(***************************************************************************)
(* The augmentation of a CSV file that holds a sixth column besides the    *)
(* five required ones (main, lines 292-305, accepts any further column).   *)
(***************************************************************************)
ExtraColumns == {"Adj Close", "Returns", "RSI"}

\* the short tables of InputTables with a copy of Close under a sixth name,
\* and tables of every bar with such a column named RSI
WiderTables ==
    {[c \in {x} |-> t["Close"]] @@ t :
        t \in {u \in InputTables : Len(u["Close"]) = MaxBars - 14}, x \in ExtraColumns}
    \cup {[c \in {"RSI"} |-> t["Close"]] @@ t :
            t \in {read_csv(MaxBars, a, b, c, k, MaxBars, 4, 4, 0) :
                      a \in Prices, b \in Prices, c \in Prices, k \in {2, MaxBars - 12}}}

InitWider ==
    /\ pc = "loaded"
    /\ df = 1
    /\ \E t \in WiderTables : tables = [o \in {1} |-> t] /\ loaded = t
    /\ sect = NoSect
    /\ corr = NoCorr

SpecWider == InitWider /\ [][NextRisk]_vars

\* C15: the table each call returns has the rows of the table read from the
\* file and every column of it, whatever its name, with its values.  A
\* column of the file named like a derived column is overwritten: violated.
C15_InputColumnsKept ==
    \A c \in DOMAIN loaded :
        /\ c \in DOMAIN T
        /\ Len(T[c]) = Bars
        /\ T[c] = loaded[c]

(***************************************************************************)
(* The macro series: process_macro_data of pages/sectorplot.py and the     *)
(* choice of the macro indicator in main() of pages/macroplot.py.  A       *)
(* column name is the sequence of its words; the macro table holds the     *)
(* dates <<1, 1>> .. <<1, MaxMacroDays>> and the column that is selected.  *)
(***************************************************************************)
MaxMacroDays == 3

MacroVariables ==
    {<<"GDP">>, <<"CPI">>, <<"Unemployment", "Rate">>, <<"Fed", "Funds", "Rate">>,
     <<"GDP", "Growth", "Rate">>, <<"Inflation", "Rate">>}

\* 'GDP' in selected_macro, 'CPI' in selected_macro: the name holds the word
HasWord(name, w) == \E i \in DOMAIN name : name[i] = w

\* selected_macro.upper() of the words the names are made of
Upper(w) ==
    CASE w = "Unemployment" -> "UNEMPLOYMENT"
      [] w = "Fed" -> "FED"
      [] w = "Funds" -> "FUNDS"
      [] w = "Rate" -> "RATE"
      [] w = "Growth" -> "GROWTH"
      [] w = "Inflation" -> "INFLATION"
      [] OTHER -> w

HasUpperWord(name, w) == \E i \in DOMAIN name : Upper(name[i]) = w

\* the macro table: one row per day, the selected column's values 1 or 2
MacroTables ==
    {[i \in 1..MaxMacroDays |-> [Date |-> <<1, i>>, value |-> I(g[i])]] :
        g \in [1..MaxMacroDays -> {1, 2}]}

MacroRanges == {<<<<1, 1>>, <<1, MaxMacroDays>>>>, <<<<1, 2>>, <<1, MaxMacroDays>>>>, <<<<1, 2>>, <<1, 2>>>>}

ValueColumn(rows) == [i \in DOMAIN rows |-> rows[i].value]

\* .fillna(0)
FillNa0(x) == IF IsNaN(x) THEN I(0) ELSE x

\* series.pct_change() * 100
pct_change_100(series) == SeriesMap(pct_change(series, 1), Times100)

\* df[macro_variable].pct_change() * 100, then fillna(0), for the
\* variables named exactly GDP or CPI; the column itself for every other
processed_value(macro_variable, column) ==
    IF macro_variable = <<"GDP">> \/ macro_variable = <<"CPI">>
    THEN SeriesMap(pct_change_100(column), FillNa0)
    ELSE column

\* the rows of the range, then the processed column computed on them
processed_rows(macro_variable, rows) ==
    [i \in DOMAIN rows |->
        [Date |-> rows[i].Date,
         processed_value |-> processed_value(macro_variable, ValueColumn(rows))[i]]]

process_macro_data(macro_data, macro_variable, start_date, end_date) ==
    processed_rows(macro_variable,
                   SelectSeq(macro_data, LAMBDA r : InDateRange(r.Date, start_date, end_date)))

calculate_gdp_growth_rate(gdp_series) == pct_change_100(gdp_series)
calculate_inflation_rate(cpi_series) == pct_change_100(cpi_series)
calculate_unemployment_rate(unemployment_series) == unemployment_series
calculate_fed_funds_rate(fed_funds_series) == fed_funds_series

\* macroplot.py lines 323-332, on the whole column of the macro table
macro_indicator_of(selected_macro, series) ==
    IF selected_macro = <<"GDP">> \/ HasWord(selected_macro, "GDP")
    THEN calculate_gdp_growth_rate(series)
    ELSE IF selected_macro = <<"CPI">> \/ HasWord(selected_macro, "CPI")
    THEN calculate_inflation_rate(series)
    ELSE IF selected_macro = <<"Unemployment", "Rate">>
            \/ HasUpperWord(selected_macro, "UNEMPLOYMENT")
    THEN calculate_unemployment_rate(series)
    ELSE IF selected_macro = <<"Fed", "Funds", "Rate">>
            \/ (HasUpperWord(selected_macro, "FED") /\ HasUpperWord(selected_macro, "FUNDS"))
    THEN calculate_fed_funds_rate(series)
    ELSE series

\* the macro indicator as rows keyed by the dates of the macro table
macro_indicator_rows(selected_macro, macro_data) ==
    [i \in DOMAIN macro_data |->
        [Date |-> macro_data[i].Date,
         processed_value |-> macro_indicator_of(selected_macro, ValueColumn(macro_data))[i]]]

InitMacro ==
    /\ pc = "macro_loaded"
    /\ \E md \in MacroTables, v \in MacroVariables :
          corr = [macro_data |-> md, variable |-> v, start_date |-> <<1, 1>>,
                  end_date |-> <<1, MaxMacroDays>>, processed |-> <<>>]
    /\ tables = <<>>
    /\ df = 0
    /\ loaded = <<>>
    /\ sect = NoSect

\* sectorplot main, line 320
ProcessMacroData(range) ==
    /\ pc = "macro_loaded"
    /\ corr' = [corr EXCEPT !.start_date = range[1], !.end_date = range[2],
                            !.processed = process_macro_data(corr.macro_data, corr.variable,
                                                             range[1], range[2])]
    /\ pc' = "sector_macro"
    /\ UNCHANGED <<tables, df, loaded, sect>>

\* macroplot main, lines 323-332
MacroIndicator ==
    /\ pc = "macro_loaded"
    /\ corr' = [corr EXCEPT !.processed = macro_indicator_rows(corr.variable, corr.macro_data)]
    /\ pc' = "macroplot_macro"
    /\ UNCHANGED <<tables, df, loaded, sect>>

NextMacro == (\E range \in MacroRanges : ProcessMacroData(range)) \/ MacroIndicator

SpecMacro == InitMacro /\ [][NextMacro]_vars

\* the raw value of the macro table at date d
RawMacroAt(d) == corr.macro_data[CHOOSE j \in DOMAIN corr.macro_data : corr.macro_data[j].Date = d].value

\* 100 * (v[d] / v[p] - 1) for the observation p immediately before d
GrowthAt(d) ==
    FMulR(FSub(FDiv(RawMacroAt(d), RawMacroAt(<<d[1], d[2] - 1>>)), I(1)), R(100))

\* C16: for GDP and CPI the processed value at every date of the range
\* that has an observation before it in the macro series, the first date
\* of the range included, is 100 * (v[d] / v[p] - 1), on the sector page
\* and on the macroplot page.  process_macro_data computes the change
\* inside the range and fills its first date with 0: violated.
C16_GrowthFromPrecedingObservation ==
    (pc \in {"sector_macro", "macroplot_macro"} /\ corr.variable \in {<<"GDP">>, <<"CPI">>}) =>
        \A i \in DOMAIN corr.processed :
            corr.processed[i].Date[2] > 1 =>
                FSame(corr.processed[i].processed_value, GrowthAt(corr.processed[i].Date))

\* C17: for every variable other than GDP and CPI the processed value is
\* the raw value at every date, on the sector page and on the macroplot
\* page.  macroplot matches 'GDP' inside the name, so GDP_Growth_Rate is
\* turned into its percentage change: violated.
C17_OtherVariablesUnchanged ==
    (pc \in {"sector_macro", "macroplot_macro"} /\ corr.variable \notin {<<"GDP">>, <<"CPI">>}) =>
        \A i \in DOMAIN corr.processed :
            corr.processed[i].processed_value = RawMacroAt(corr.processed[i].Date)

\* the column of the file holds one value at every bar
ConstantColumn(c) == \A t \in 1..Bars : loaded[c][t] = loaded[c][1]

\* C18: with a constant close, BB_Position is undefined and
\* Historical_Volatility is zero or undefined at every bar; with a constant
\* volume, 0 included, Volume_Surge is 1 at every bar with a full window of
\* 20 bars.  A volume of 0 gives 0 / 0, which is undefined: violated.
C18_ConstantSeries ==
    pc = "volatility" =>
        /\ ConstantColumn("Close") =>
              \A t \in 1..Bars :
                  /\ IsNaN(T["BB_Position"][t])
                  /\ IsNaN(T["Historical_Volatility"][t])
                     \/ FEq(T["Historical_Volatility"][t], I(0))
        /\ ConstantColumn("Volume") =>
              \A t \in VOL_PERIOD..Bars : FEq(T["Volume_Surge"][t], I(1))

(***************************************************************************)
(* Further properties of the sector page, checked under SpecSector.        *)
(***************************************************************************)
\* the rows of the ticker-to-sector mapping in every order
Reordered(stock_info) ==
    {[i \in DOMAIN stock_info |-> stock_info[p[i]]] : p \in Permutations(DOMAIN stock_info)}

\* C19: for every order of the rows of the ticker-to-sector mapping,
\* calculate_sector_value_proxy returns the dates and per-date totals it
\* returned for the order the mapping was loaded in.
C19_OrderIndependent ==
    sect.op = "sector" =>
        \A info \in Reordered(sect.stock_info) :
            calculate_sector_value_proxy(sect.stock_data, info, sect.sector,
                                         sect.start_date, sect.end_date) = sect.sector_data

\* a sector of two instruments in the stock data, with a date on which both
\* trade (2000 - 500 = 1500) and a date on which only the first does
C19_Witness ==
    /\ pc = "sector"
    /\ sect.sector = "Tech"
    /\ {"A", "B"} \subseteq DOMAIN sect.stock_data
    /\ \E j \in DOMAIN sect.sector_data.rows : sect.sector_data.rows[j].value_proxy = 1500
    /\ \E j \in DOMAIN sect.sector_data.rows : sect.sector_data.rows[j].value_proxy = 2000
    /\ Cardinality(Reordered(sect.stock_info)) = 6

(***************************************************************************)
(* Further properties of the correlation, checked under SpecCorr.          *)
(***************************************************************************)
\* the two series with their roles exchanged: the macro series as the left
\* (value_proxy) series and the sector series as the right one
AsSectorSeries(macro_data) ==
    [i \in DOMAIN macro_data |->
        [date |-> macro_data[i].Date, value_proxy |-> macro_data[i].processed_value]]

AsMacroSeries(sector_data) ==
    [i \in DOMAIN sector_data |->
        [Date |-> sector_data[i].date, processed_value |-> sector_data[i].value_proxy]]

SameOutcome(r1, r2) ==
    /\ r1.returned = r2.returned
    /\ r1.correlation = r2.correlation
    /\ r1.strength = r2.strength

\* C20: correlating the two series in the other order gives the same
\* outcome, on the sector page and in macroplot: no result both ways, or the
\* same coefficient (in exact arithmetic; undefined both ways when a joined
\* series is constant or has a NaN) with the same strength label.
C20_CorrelationSymmetric ==
    /\ pc = "sector_corr" =>
          SameOutcome(calculate_correlation_analysis(AsSectorSeries(corr.macro_data),
                                                     AsMacroSeries(corr.sector_data)),
                      corr.result)
    /\ pc = "macro_corr" =>
          SameOutcome(macroplot_correlation(AsSectorSeries(corr.macro_data),
                                            AsMacroSeries(corr.sector_data)),
                      corr.result)

\* three joined dates on which the two series differ and correlate
\* positively but not perfectly, under a label
C20_Witness ==
    /\ pc = "sector_corr"
    /\ Len(merge_inner(corr.sector_data, corr.macro_data)) = 3
    /\ ValueProxyColumn(corr.sector_data) # ProcessedColumn(corr.macro_data)
    /\ corr.result.returned = "tuple"
    /\ FGt(corr.result.correlation, I(0))
    /\ FLt(corr.result.correlation, I(1))
    /\ corr.result.strength = "Strong"

(***************************************************************************)
(* Properties of the all-sectors aggregation, checked under SpecSector.    *)
(***************************************************************************)
\* the distinct sectors of the mapping
MappedSectors == {sect.stock_info[i].sector : i \in DOMAIN sect.stock_info}

\* calculate_sector_value_proxy for sector s over the range of the run
SectorAlone(s) ==
    calculate_sector_value_proxy(sect.stock_data, sect.stock_info, s,
                                 sect.start_date, sect.end_date)

\* the rows of the all-sectors table tagged s, without the tag
TaggedRows(s) ==
    LET sel == SelectSeq(sect.all_sector_data.rows, LAMBDA r : r.sector = s)
    IN  [j \in DOMAIN sel |-> [date |-> sel[j].date, value_proxy |-> sel[j].value_proxy]]

\* C21: the all-sectors aggregation is the per-sector aggregation of every
\* distinct sector of the mapping over the same range: the rows tagged S are
\* exactly the rows calculate_sector_value_proxy returns for S, a sector
\* without rows contributes none, and no row is tagged with a sector that is
\* not in the mapping; it raises exactly when the call for some sector does.
C21_TaggedRowsAreSectorRows ==
    sect.op = "all_sectors" =>
        IF \E s \in MappedSectors : SectorAlone(s).exc # "none"
        THEN pc = "aborted" /\ sect.all_sector_data.exc = "KeyError"
        ELSE /\ pc \in {"all_sectors", "heatmap"}
             /\ \A s \in MappedSectors : TaggedRows(s) = SectorAlone(s).rows
             /\ \A j \in DOMAIN sect.all_sector_data.rows :
                   sect.all_sector_data.rows[j].sector \in MappedSectors

\* two sectors with rows, more for one than for the other
C21_Witness ==
    /\ pc = "all_sectors"
    /\ Len(TaggedRows("Tech")) > Len(TaggedRows("Fin"))
    /\ Len(TaggedRows("Fin")) > 0
    /\ Len(sect.all_sector_data.rows) = Len(TaggedRows("Tech")) + Len(TaggedRows("Fin"))

(***************************************************************************)
(* The labels the two pages give a correlation: lines 268-274 and 369-394  *)
(* of pages/sectorplot.py and lines 462-465 of pages/macroplot.py, applied *)
(* to coefficients and p-values on and around the thresholds.              *)
(***************************************************************************)
Coefficients == {RNorm(n, 20) : n \in -20..20}
PValues == {RNorm(n, 100) : n \in {0, 1, 4, 5, 6, 50, 100}}

\* "correlation-positive" if correlation > 0 else "correlation-negative"
correlation_class(correlation) ==
    IF FGt(correlation, I(0)) THEN "correlation-positive" ELSE "correlation-negative"

\* "Significant" if p_value < 0.05 else "Not Significant"
significance_of(p_value) ==
    IF FLt(p_value, Num(<<5, 100>>)) THEN "Significant" ELSE "Not Significant"

\* sectorplot.py lines 385-394: a direction only in the key finding above 0.3
key_finding_direction(correlation) ==
    IF FGt(FAbs(correlation), Num(<<3, 10>>))
    THEN (IF FGt(correlation, I(0)) THEN "positive" ELSE "negative")
    ELSE "None"

\* macroplot.py lines 462-465: the direction of the st.info message
macroplot_direction(correlation) ==
    IF FGt(FAbs(correlation), Num(<<3, 10>>))
    THEN (IF FGt(correlation, I(0)) THEN "positive" ELSE "negative")
    ELSE "None"

InitLabels ==
    /\ pc = "coefficient"
    /\ \E r \in Coefficients, p \in PValues :
          corr = [correlation |-> Num(r), p_value |-> Num(p), strength |-> "unset",
                  class |-> "unset", significance |-> "unset", direction |-> "unset"]
    /\ tables = <<>>
    /\ df = 0
    /\ loaded = <<>>
    /\ sect = NoSect

\* the sector page: the label of calculate_correlation_analysis and the
\* three metric cards and key finding of main
SectorPageLabels ==
    /\ pc = "coefficient"
    /\ corr' = [corr EXCEPT !.strength = correlation_strength(corr.correlation),
                            !.class = correlation_class(corr.correlation),
                            !.significance = significance_of(corr.p_value),
                            !.direction = key_finding_direction(corr.correlation)]
    /\ pc' = "sector_labels"
    /\ UNCHANGED <<tables, df, loaded, sect>>

\* the stock page: the st.info message of macroplot's main
StockPageLabels ==
    /\ pc = "coefficient"
    /\ corr' = [corr EXCEPT !.strength = macroplot_strength(corr.correlation),
                            !.direction = macroplot_direction(corr.correlation)]
    /\ pc' = "stock_labels"
    /\ UNCHANGED <<tables, df, loaded, sect>>

NextLabels == SectorPageLabels \/ StockPageLabels

SpecLabels == InitLabels /\ [][NextLabels]_vars

\* |r| of the coefficient of the state, as a rational
AbsCoefficient ==
    IF corr.correlation.a[1] < 0 THEN RNeg(corr.correlation.a) ELSE corr.correlation.a

\* C22: for a coefficient r in [-1, 1] the label is Strong iff |r| > 0.7,
\* Moderate iff 0.3 < |r| <= 0.7 and, on the sector page, Weak iff
\* |r| <= 0.3 (the stock page shows no label there); the direction is
\* positive iff r > 0 wherever one is shown; the sector page reports
\* Significant iff p < 0.05.  Both pages use the thresholds 0.7 and 0.3.
C22_Labels ==
    /\ pc \in {"sector_labels", "stock_labels"} =>
          /\ corr.strength = "Strong" <=> RLess(<<7, 10>>, AbsCoefficient)
          /\ corr.strength = "Moderate" <=>
                (RLess(<<3, 10>>, AbsCoefficient) /\ RLeq(AbsCoefficient, <<7, 10>>))
          /\ corr.direction = "positive" =>  corr.correlation.a[1] > 0
          /\ corr.direction = "negative" =>  corr.correlation.a[1] < 0
          /\ corr.direction = "None" <=> RLeq(AbsCoefficient, <<3, 10>>)
    /\ pc = "sector_labels" =>
          /\ corr.strength = "Weak" <=> RLeq(AbsCoefficient, <<3, 10>>)
          /\ corr.strength \in {"Strong", "Moderate", "Weak"}
          /\ corr.class = "correlation-positive" <=> corr.correlation.a[1] > 0
          /\ corr.significance = "Significant" <=> RLess(corr.p_value.a, <<5, 100>>)
    /\ pc = "stock_labels" =>
          /\ corr.strength = "None" <=> RLeq(AbsCoefficient, <<3, 10>>)
          /\ corr.strength \in {"Strong", "Moderate", "None"}

\* a coefficient on the upper threshold with a p-value on its threshold, as
\* the sector page labels them
C22_Witness ==
    /\ pc = "sector_labels"
    /\ corr.correlation = Num(<<-7, 10>>)
    /\ corr.p_value = Num(<<1, 20>>)
    /\ corr.strength = "Moderate"
    /\ corr.direction = "negative"
    /\ corr.significance = "Not Significant"

(***************************************************************************)
(* Two invocations running at once over one stock_data dictionary and one  *)
(* mapping: calculate_sector_value_proxy (pages/sectorplot.py lines        *)
(* 116-138) for two sectors, one statement at a time, or                   *)
(* calculate_greed_fear_index for two instruments.  tables is the heap of  *)
(* table objects, stock_data maps a ticker to its object, df[t] is the     *)
(* local df of invocation t and pc[t] its position.                        *)
(***************************************************************************)
Threads == {1, 2}

\* the directories that load, with every bar of ticker A
ConcurrentDirs ==
    {dir \in ProcessedDirs :
        /\ load_data(dir).ok
        /\ dir["A"] = CsvFile(RequiredColumns, Dates, BarA)}

SectorPairs == {<<"Tech", "Fin">>, <<"Fin", "Energy">>, <<"Fin", "Tech">>}

\* the OHLCV tables of two instruments
IndicatorTables ==
    {read_csv(MaxBars, 1, b, c, 2, MaxBars, 4, v2, 0) : b \in Prices, c \in Prices, v2 \in Volumes}

ObjectOf == [tk \in {"A", "B", "C"} |-> CASE tk = "A" -> 1 [] tk = "B" -> 2 [] tk = "C" -> 3]

\* an object the heap does not hold yet
NewObject == 1 + CHOOSE n \in DOMAIN tables : \A m \in DOMAIN tables : m <= n

NewCall(fn, arg) ==
    [fn |-> fn, arg |-> arg, tickers |-> <<>>, i |-> 0, sector_data |-> <<>>,
     frames |-> 0, result |-> NoFrame]

InitConcurrent ==
    /\ pc = [t \in Threads |-> "call"]
    /\ df = [t \in Threads |-> 0]
    /\ corr = NoCorr
    /\ \/ \E dir \in ConcurrentDirs, pair \in SectorPairs :
             /\ tables = [o \in {ObjectOf[tk] : tk \in DOMAIN dir} |->
                             dir[CHOOSE tk \in DOMAIN dir : ObjectOf[tk] = o]]
             /\ sect = [stock_info |-> load_data(dir).stock_info,
                        stock_data |-> [tk \in DOMAIN dir |-> ObjectOf[tk]],
                        start_date |-> <<1, MaxDay>>, end_date |-> <<MaxMonth, 1>>,
                        calls |-> [t \in Threads |->
                                      NewCall("calculate_sector_value_proxy", pair[t])]]
       \/ \E ta \in IndicatorTables, tb \in IndicatorTables :
             /\ tables = [o \in {1, 2} |-> IF o = 1 THEN ta ELSE tb]
             /\ sect = [stock_info |-> StockInfo,
                        stock_data |-> [tk \in {"A", "B"} |-> ObjectOf[tk]],
                        start_date |-> FirstDate, end_date |-> LastDate,
                        calls |-> [t \in Threads |->
                                      NewCall("calculate_greed_fear_index",
                                              IF t = 1 THEN "A" ELSE "B")]]
    /\ loaded = tables

Call(t) == sect.calls[t]
Ticker(t) == Call(t).tickers[Call(t).i]

\* line 122-123: sector_stocks and the empty list sector_data
SectorStocks(t) ==
    /\ pc[t] = "call"
    /\ Call(t).fn = "calculate_sector_value_proxy"
    /\ sect' = [sect EXCEPT !.calls[t].tickers = sector_stocks(sect.stock_info, Call(t).arg),
                            !.calls[t].i = 1]
    /\ pc' = [pc EXCEPT ![t] = "loop"]
    /\ UNCHANGED <<tables, df, loaded, corr>>

\* lines 125-127: the next ticker of the loop; df = stock_data[ticker].copy()
NextTicker(t) ==
    /\ pc[t] = "loop"
    /\ IF Call(t).i > Len(Call(t).tickers)
       THEN /\ pc' = [pc EXCEPT ![t] = "concat"]
            /\ UNCHANGED <<tables, df, sect>>
       ELSE IF Ticker(t) \notin DOMAIN sect.stock_data
       THEN /\ sect' = [sect EXCEPT !.calls[t].i = @ + 1]
            /\ UNCHANGED <<tables, df, pc>>
       ELSE /\ tables' = [o \in {NewObject} |-> tables[sect.stock_data[Ticker(t)]]] @@ tables
            /\ df' = [df EXCEPT ![t] = NewObject]
            /\ pc' = [pc EXCEPT ![t] = "copied"]
            /\ UNCHANGED sect
    /\ UNCHANGED <<loaded, corr>>

\* line 128: df = df[(df['Date'] >= start_date) & (df['Date'] <= end_date)]
FilterRange(t) ==
    /\ pc[t] = "copied"
    /\ IF "Date" \in tables[df[t]].columns
       THEN /\ tables' = [o \in {NewObject} |->
                             [columns |-> tables[df[t]].columns,
                              rows |-> SelectSeq(tables[df[t]].rows,
                                                 LAMBDA r : InDateRange(r["Date"], sect.start_date,
                                                                        sect.end_date))]] @@ tables
            /\ df' = [df EXCEPT ![t] = NewObject]
            /\ pc' = [pc EXCEPT ![t] = "filtered"]
            /\ UNCHANGED sect
       ELSE /\ sect' = [sect EXCEPT !.calls[t].result = Raise("KeyError")]
            /\ pc' = [pc EXCEPT ![t] = "raised"]
            /\ UNCHANGED <<tables, df>>
    /\ UNCHANGED <<loaded, corr>>

\* line 129: df['value_proxy'] = (df['Close'] - df['Open']) * df['Volume']
AssignValueProxy(t) ==
    /\ pc[t] = "filtered"
    /\ IF {"Close", "Open", "Volume"} \subseteq tables[df[t]].columns
       THEN /\ tables' = [tables EXCEPT ![df[t]] =
                             [columns |-> @.columns \cup {"value_proxy"},
                              rows |-> [j \in DOMAIN @.rows |->
                                           [c \in {"value_proxy"} |-> value_proxy(@.rows[j])]
                                           @@ @.rows[j]]]]
            /\ pc' = [pc EXCEPT ![t] = "valued"]
            /\ UNCHANGED sect
       ELSE /\ sect' = [sect EXCEPT !.calls[t].result = Raise("KeyError")]
            /\ pc' = [pc EXCEPT ![t] = "raised"]
            /\ UNCHANGED tables
    /\ UNCHANGED <<df, loaded, corr>>

\* lines 130-131: df['ticker'] = ticker; sector_data.append(df[[...]])
AppendFrame(t) ==
    /\ pc[t] = "valued"
    /\ sect' = [sect EXCEPT
                  !.calls[t].sector_data =
                      @ \o [j \in DOMAIN tables[df[t]].rows |->
                               [Date |-> tables[df[t]].rows[j]["Date"],
                                value_proxy |-> tables[df[t]].rows[j]["value_proxy"],
                                ticker |-> Ticker(t)]],
                  !.calls[t].frames = @ + 1,
                  !.calls[t].i = @ + 1]
    /\ tables' = [tables EXCEPT ![df[t]] =
                     [columns |-> @.columns \cup {"ticker"},
                      rows |-> [j \in DOMAIN @.rows |->
                                   [c \in {"ticker"} |-> Ticker(t)] @@ @.rows[j]]]]
    /\ pc' = [pc EXCEPT ![t] = "loop"]
    /\ UNCHANGED <<df, loaded, corr>>

\* lines 133-138: concat, groupby('Date').sum(), or the empty DataFrame
ConcatSum(t) ==
    /\ pc[t] = "concat"
    /\ sect' = [sect EXCEPT !.calls[t].result =
                    IF Call(t).frames > 0 THEN Frame(groupby_date_sum(Call(t).sector_data))
                    ELSE Frame(<<>>)]
    /\ pc' = [pc EXCEPT ![t] = "done"]
    /\ UNCHANGED <<tables, df, loaded, corr>>

\* calculate_greed_fear_index(stock_data[ticker]): the columns are assigned
\* on the table passed in, which is returned
IndicatorCall(t) ==
    /\ pc[t] = "call"
    /\ Call(t).fn = "calculate_greed_fear_index"
    /\ tables' = [tables EXCEPT ![sect.stock_data[Call(t).arg]] = calculate_greed_fear_index(@)]
    /\ df' = [df EXCEPT ![t] = sect.stock_data[Call(t).arg]]
    /\ pc' = [pc EXCEPT ![t] = "done"]
    /\ UNCHANGED <<sect, loaded, corr>>

NextConcurrent ==
    \E t \in Threads :
        \/ SectorStocks(t)
        \/ NextTicker(t)
        \/ FilterRange(t)
        \/ AssignValueProxy(t)
        \/ AppendFrame(t)
        \/ ConcatSum(t)
        \/ IndicatorCall(t)

SpecConcurrent == InitConcurrent /\ [][NextConcurrent]_vars

\* the stock data as it was before the invocations began
SharedBefore == [tk \in DOMAIN sect.stock_data |-> loaded[sect.stock_data[tk]]]

\* the result of invocation t when it runs alone on that data
RunAlone(t) ==
    IF Call(t).fn = "calculate_sector_value_proxy"
    THEN calculate_sector_value_proxy(SharedBefore, sect.stock_info, Call(t).arg,
                                      sect.start_date, sect.end_date)
    ELSE calculate_greed_fear_index(SharedBefore[Call(t).arg])

ResultOf(t) ==
    IF Call(t).fn = "calculate_sector_value_proxy" THEN Call(t).result ELSE tables[df[t]]

\* every invocation that has ended returned what it returns alone
SameAsAlone == \A t \in Threads : pc[t] \in {"done", "raised"} => ResultOf(t) = RunAlone(t)

\* the shared tables are as they were
SharedUnchanged ==
    \A tk \in DOMAIN sect.stock_data : tables[sect.stock_data[tk]] = SharedBefore[tk]

\* C23: in every interleaving of two invocations over the shared stock data
\* and mapping, each returns what it returns alone and the shared tables
\* stay as they were.  calculate_greed_fear_index assigns its columns on the
\* shared table it is given, which violates the second part.
C23_ConcurrentSafe == SameAsAlone /\ SharedUnchanged

\* the rows of the mapping whose ticker has a table in stock_data
PresentRows == SelectSeq(sect.stock_info, LAMBDA r : r.ticker \in DOMAIN sect.stock_data)

\* C24: calculate_sector_value_proxy for a sector that is not in the mapping,
\* or none of whose tickers has a table in stock_data, returns the empty
\* table and does not raise; tickers of the mapping without a table are
\* skipped: the outcome is that of the mapping without them.
C24_NoMatchIsEmpty ==
    sect.op = "sector" =>
        /\ (sect.sector \notin MappedSectors \/ TickersOf(sect.sector) = {}) =>
              (pc = "sector" /\ sect.sector_data = Frame(<<>>))
        /\ sect.sector_data =
              calculate_sector_value_proxy(sect.stock_data, PresentRows, sect.sector,
                                           sect.start_date, sect.end_date)

\* a sector of the mapping whose only ticker has no table, asked for over a
\* range in which another sector has bars
C24_Witness ==
    /\ pc = "sector"
    /\ sect.sector = "Fin"
    /\ sect.sector \in MappedSectors
    /\ TickersOf(sect.sector) = {}
    /\ BarsDated("Tech", sect.start_date) # {}
    /\ sect.sector_data.rows = <<>>

(***************************************************************************)
(* Properties of the heatmap matrix, checked under SpecSector.             *)
(***************************************************************************)
HeatRows == sect.all_sector_data.rows

\* the rows of sector s dated in calendar month m
RowsOfCell(s, m) == {j \in DOMAIN HeatRows : HeatRows[j].sector = s /\ HeatRows[j].date[1] = m}

\* the sum of value_proxy over a set of rows
RECURSIVE RowSum(_)
RowSum(J) ==
    IF J = {} THEN 0
    ELSE LET j == CHOOSE x \in J : TRUE IN HeatRows[j].value_proxy + RowSum(J \ {j})

\* the sum of a set of cells of heatmap_data
RECURSIVE CellSum(_)
CellSum(cs) ==
    IF cs = {} THEN Zero
    ELSE LET c == CHOOSE x \in cs : TRUE
         IN  RAdd(sect.heatmap_data[c[1]][c[2]].a, CellSum(cs \ {c}))

\* C25: heatmap_data has exactly one cell for every pair of a sector and a
\* calendar month occurring in the rows given; a cell with rows is the sum
\* of value_proxy over the rows of its sector dated in its month, a cell
\* without rows is 0, and the cells add up to the sum of all rows.
C25_DenseMatrix ==
    pc = "heatmap" =>
        /\ DOMAIN sect.heatmap_data = {HeatRows[j].sector : j \in DOMAIN HeatRows}
        /\ \A s \in DOMAIN sect.heatmap_data :
              /\ DOMAIN sect.heatmap_data[s] = {HeatRows[j].date[1] : j \in DOMAIN HeatRows}
              /\ \A m \in DOMAIN sect.heatmap_data[s] :
                    sect.heatmap_data[s][m] = I(RowSum(RowsOfCell(s, m)))
        /\ CellSum({<<s, m>> : s \in DOMAIN sect.heatmap_data,
                               m \in {HeatRows[j].date[1] : j \in DOMAIN HeatRows}})
              = R(RowSum(DOMAIN HeatRows))

\* two sectors and two months, a cell summed over two dates and a cell
\* without rows
C25_Witness ==
    /\ pc = "heatmap"
    /\ Cardinality(DOMAIN sect.heatmap_data) = 2
    /\ \E s \in DOMAIN sect.heatmap_data : Cardinality(DOMAIN sect.heatmap_data[s]) = 2
    /\ \E s \in DOMAIN sect.heatmap_data : \E m \in DOMAIN sect.heatmap_data[s] :
          Cardinality(RowsOfCell(s, m)) = 2 /\ ~FEq(sect.heatmap_data[s][m], I(0))
    /\ \E s \in DOMAIN sect.heatmap_data : \E m \in DOMAIN sect.heatmap_data[s] :
          RowsOfCell(s, m) = {} /\ FEq(sect.heatmap_data[s][m], I(0))

(***************************************************************************)
(* The labels of the two scores: create_greed_fear_plot, create_sentiment_ *)
(* plot and the status texts of main, applied to values on and around the  *)
(* thresholds and to NaN.                                                  *)
(***************************************************************************)
ScoreValues == {Num(RNorm(n, 2)) : n \in -210..210} \cup {NaN}

InitScores ==
    /\ pc = "score"
    /\ \E v \in ScoreValues : corr = [value |-> v, shown |-> "unset"]
    /\ tables = <<>>
    /\ df = 0
    /\ loaded = <<>>
    /\ sect = NoSect

GreedFearColor ==
    /\ pc = "score"
    /\ corr' = [corr EXCEPT !.shown = greed_fear_color(corr.value)]
    /\ pc' = "gf_color"
    /\ UNCHANGED <<tables, df, loaded, sect>>

GreedFearStatus ==
    /\ pc = "score"
    /\ corr' = [corr EXCEPT !.shown = greed_fear_status(corr.value)]
    /\ pc' = "gf_status"
    /\ UNCHANGED <<tables, df, loaded, sect>>

SentimentColor ==
    /\ pc = "score"
    /\ corr' = [corr EXCEPT !.shown = sentiment_color(corr.value)]
    /\ pc' = "sentiment_color"
    /\ UNCHANGED <<tables, df, loaded, sect>>

SentimentStatus ==
    /\ pc = "score"
    /\ corr' = [corr EXCEPT !.shown = sentiment_status(corr.value)]
    /\ pc' = "sentiment_status"
    /\ UNCHANGED <<tables, df, loaded, sect>>

NextScores == GreedFearColor \/ GreedFearStatus \/ SentimentColor \/ SentimentStatus

SpecScores == InitScores /\ [][NextScores]_vars

\* the label a marker colour of the Greed-Fear plot stands for (the comments
\* of lines 153-161)
GreedFearLabelOfColor ==
    [c \in {"red", "orange", "yellow", "lightblue", "blue"} |->
        CASE c = "red" -> "Extreme Greed" [] c = "orange" -> "Greed" [] c = "yellow" -> "Neutral"
          [] c = "lightblue" -> "Fear" [] c = "blue" -> "Extreme Fear"]

\* the label of a defined value v, as the thresholds 80, 60, 40 and 20 give it
GreedFearLabel(v) ==
    CASE ~RLess(v, R(80)) -> "Extreme Greed"
      [] RLess(v, R(80)) /\ ~RLess(v, R(60)) -> "Greed"
      [] RLess(v, R(60)) /\ ~RLess(v, R(40)) -> "Neutral"
      [] RLess(v, R(40)) /\ ~RLess(v, R(20)) -> "Fear"
      [] RLess(v, R(20)) -> "Extreme Fear"

\* C26: a defined Greed_Fear_Index value has the label of its band (Extreme
\* Greed from 80, Greed from 60, Neutral from 40, Fear from 20, Extreme Fear
\* below 20), in the marker colour of the plot and in the status text of
\* main alike.
C26_GreedFearLabels ==
    IsNum(corr.value) =>
        /\ pc = "gf_color" => GreedFearLabelOfColor[corr.shown] = GreedFearLabel(corr.value.a)
        /\ pc = "gf_status" => corr.shown = GreedFearLabel(corr.value.a)

\* the value 60, on a threshold, in the colour of Greed
C26_Witness ==
    /\ pc = "gf_color"
    /\ corr.value = I(60)
    /\ corr.shown = "orange"

(***************************************************************************)
(* Properties of the display of the risk page, checked under SpecRisk.     *)
(***************************************************************************)
SentimentLabelColors == {"darkgreen", "lightgreen", "gold", "orange", "red"}
GreedFearStatuses == {"Extreme Greed", "Greed", "Neutral", "Fear", "Extreme Fear"}
SentimentStatuses == {"Very Positive", "Positive", "Neutral", "Negative", "Very Negative"}

\* the plots give an undefined score no colour of a label
UndefinedHasNoColor ==
    /\ \A t \in 1..Bars : IsNaN(T["Greed_Fear_Index"][t]) =>
          corr.gf_colors[t] \notin DOMAIN GreedFearLabelOfColor
    /\ \A t \in 1..Bars : IsNaN(T["Sentiment_Score"][t]) =>
          corr.sentiment_colors[t] \notin SentimentLabelColors

\* main gives an undefined latest score no status of a label
UndefinedHasNoStatus ==
    /\ IsNaN(T["Greed_Fear_Index"][Bars]) => corr.current_gf_status \notin GreedFearStatuses
    /\ IsNaN(T["Sentiment_Score"][Bars]) =>
          corr.current_sentiment_status \notin SentimentStatuses

\* C27: an undefined Greed_Fear_Index or Sentiment_Score is given no
\* threshold label, neither by the colouring of the plots nor by the status
\* texts of main.  The last branch of the Greed-Fear colouring and of both
\* status texts takes NaN as well, which violates this.
C27_UndefinedNotLabelled == pc = "displayed" => (UndefinedHasNoColor /\ UndefinedHasNoStatus)

(***************************************************************************)
(* The order of the three calls, checked under SpecWider, where the file   *)
(* may already hold a column named RSI.                                    *)
(***************************************************************************)
\* the RSI and BB_Position this run computes from the Close read
RunRSI == calculate_rsi(loaded["Close"], RSI_PERIOD)
RunBBPosition == bollinger_position(loaded["Close"], BB_PERIOD)

\* C28: calculate_sentiment_score starts only when calculate_greed_fear_index
\* has completed on the same table, and its RSI_Sentiment and BB_Sentiment
\* are derived from the RSI and BB_Position that call wrote in this run,
\* not from absent columns or from columns the file came with.
C28_SentimentAfterGreedFear ==
    [][pc' = "sentiment" =>
          /\ pc = "greed_fear"
          /\ df' = df
          /\ {"RSI", "BB_Position"} \subseteq DOMAIN tables[df]
          /\ tables[df]["RSI"] = RunRSI
          /\ tables[df]["BB_Position"] = RunBBPosition
          /\ \A t \in 1..Bars :
                /\ tables'[df]["RSI_Sentiment"][t] = RSI_Sentiment_Value(RunRSI[t])
                /\ tables'[df]["BB_Sentiment"][t] = BB_Sentiment_Value(RunBBPosition[t])]_vars

\* a file with a column RSI of its own, and a sentiment derived from a
\* defined RSI of this run that differs from the file's
C28_Witness ==
    /\ pc = "sentiment"
    /\ "RSI" \in DOMAIN loaded
    /\ \E t \in 1..Bars :
          /\ IsNum(T["RSI"][t])
          /\ ~FEq(T["RSI"][t], loaded["RSI"][t])
          /\ T["RSI_Sentiment"][t] = I(-1)
          /\ RSI_Sentiment_Value(loaded["RSI"][t]) = I(1)

(***************************************************************************)
(* pages/mavrovis.py : its own calculate_greed_fear_index (lines 13-66)    *)
(* and calculate_volatility_metrics (lines 68-89), and the two calls of    *)
(* its main (lines 233-234).                                               *)
(***************************************************************************)
\* lines 21-23: rs = gain / loss; rsi = 100 - (100 / (1 + rs))
mavrovis_rsi_value(gain, loss) == FSub(I(100), FDiv(I(100), FAdd(I(1), FDiv(gain, loss))))

\* lines 18-24, period=14
mavrovis_calculate_rsi(prices) ==
    SeriesZip(rolling_mean(where_gt0(diff(prices)), 14),
              rolling_mean(SeriesMap(where_lt0(diff(prices)), FNeg), 14),
              mavrovis_rsi_value)

\* lines 30-32: upper_band, lower_band and the position between them
mavrovis_upper_band(sma, std) == FAdd(sma, FMulR(std, R(2)))
mavrovis_lower_band(sma, std) == FSub(sma, FMulR(std, R(2)))
mavrovis_bb_position_value(price, sma, std) ==
    FDiv(FSub(price, mavrovis_lower_band(sma, std)),
         FSub(mavrovis_upper_band(sma, std), mavrovis_lower_band(sma, std)))

\* lines 27-33, period=20
mavrovis_bollinger_position(prices) ==
    SeriesZip3(prices, rolling_mean(prices, 20), rolling_std(prices, 20),
               mavrovis_bb_position_value)

\* lines 36-39, period=20
mavrovis_volume_surge(volume) == SeriesZip(volume, rolling_mean(volume, 20), FDiv)

\* lines 42-44, period=10
mavrovis_price_momentum(prices) == pct_change(prices, 10)

\* lines 54-56
mavrovis_bb_norm(x) == FMulR(x, R(100))
mavrovis_volume_norm(x) == np_clip(FMulR(FSub(x, Num(<<1, 2>>)), R(100)), I(0), I(100))
mavrovis_momentum_norm(x) == np_clip(FMulR(FAdd(x, Num(<<1, 10>>)), R(500)), I(0), I(100))

\* lines 59-64 with all four weights 0.25
mavrovis_greed_fear_value_even(rsi, bb, vol, mom) ==
    FMulR(FAdd(FAdd(FAdd(rsi, bb), vol), mom), <<1, 4>>)

\* lines 59-64: the weights 0.3, 0.25, 0.25, 0.2
mavrovis_greed_fear_value(rsi, bb, vol, mom) ==
    FAdd(FAdd(FAdd(FMulR(rsi, <<3, 10>>), FMulR(bb, <<1, 4>>)), FMulR(vol, <<1, 4>>)),
         FMulR(mom, <<1, 5>>))

\* lines 47-64: the nine columns, from the four indicator columns
mavrovis_greed_fear_columns(RSI, BB_Position, Volume_Surge, Price_Momentum) ==
    [c \in {"RSI", "BB_Position", "Volume_Surge", "Price_Momentum", "RSI_Norm",
            "BB_Norm", "Volume_Norm", "Momentum_Norm", "Greed_Fear_Index"} |->
        CASE c \in {"RSI", "RSI_Norm"} -> RSI
          [] c = "BB_Position" -> BB_Position
          [] c = "Volume_Surge" -> Volume_Surge
          [] c = "Price_Momentum" -> Price_Momentum
          [] c = "BB_Norm" -> SeriesMap(BB_Position, mavrovis_bb_norm)
          [] c = "Volume_Norm" -> SeriesMap(Volume_Surge, mavrovis_volume_norm)
          [] c = "Momentum_Norm" -> SeriesMap(Price_Momentum, mavrovis_momentum_norm)
          [] c = "Greed_Fear_Index" ->
                SeriesZip4(RSI, SeriesMap(BB_Position, mavrovis_bb_norm),
                           SeriesMap(Volume_Surge, mavrovis_volume_norm),
                           SeriesMap(Price_Momentum, mavrovis_momentum_norm),
                           mavrovis_greed_fear_value)]

mavrovis_calculate_greed_fear_index(t) ==
    mavrovis_greed_fear_columns(mavrovis_calculate_rsi(t["Close"]),
                                mavrovis_bollinger_position(t["Close"]),
                                mavrovis_volume_surge(t["Volume"]),
                                mavrovis_price_momentum(t["Close"])) @@ t

\* line 74: rolling(window=20).std() * np.sqrt(252) * 100
mavrovis_annualized(std) == FMulR(FMulSqrt(std, 252), R(100))

\* lines 78-79: abs(df['High'] - df['Close'].shift(1)) and the same for Low
mavrovis_abs_difference(x, y) == FAbs(FSub(x, y))

\* line 82: (df['ATR'] / df['Close']) * 100
mavrovis_atr_percentage(atr, close) == FMulR(FDiv(atr, close), R(100))

\* line 87: (std * 4 / sma) * 100
mavrovis_bb_width(std, sma) == FMulR(FDiv(FMulR(std, R(4)), sma), R(100))

\* line 80: df[['H-L', 'H-PC', 'L-PC']].max(axis=1)
mavrovis_true_range(t) ==
    row_max(SeriesZip(t["High"], t["Low"], FSub),
            SeriesZip(t["High"], shift(t["Close"], 1), mavrovis_abs_difference),
            SeriesZip(t["Low"], shift(t["Close"], 1), mavrovis_abs_difference))

\* lines 73-87: the nine columns, given the column ATR
mavrovis_volatility_columns(t, ATR) ==
    [c \in {"Returns", "Historical_Volatility", "H-L", "H-PC", "L-PC", "TR", "ATR",
            "ATR_Percentage", "BB_Width"} |->
        CASE c = "Returns" -> pct_change(t["Close"], 1)
          [] c = "Historical_Volatility" ->
                SeriesMap(rolling_std(pct_change(t["Close"], 1), 20), mavrovis_annualized)
          [] c = "H-L" -> SeriesZip(t["High"], t["Low"], FSub)
          [] c = "H-PC" -> SeriesZip(t["High"], shift(t["Close"], 1), mavrovis_abs_difference)
          [] c = "L-PC" -> SeriesZip(t["Low"], shift(t["Close"], 1), mavrovis_abs_difference)
          [] c = "TR" -> mavrovis_true_range(t)
          [] c = "ATR" -> ATR
          [] c = "ATR_Percentage" -> SeriesZip(ATR, t["Close"], mavrovis_atr_percentage)
          [] c = "BB_Width" ->
                SeriesZip(rolling_std(t["Close"], 20), rolling_mean(t["Close"], 20),
                          mavrovis_bb_width)]

mavrovis_calculate_volatility_metrics(t) ==
    mavrovis_volatility_columns(t, rolling_mean(mavrovis_true_range(t), 14)) @@ t

\* main of mavrovis.py: the table read, then the two calls of lines 233-234
InitMavrovis ==
    /\ pc = "loaded"
    /\ df = 1
    /\ \E t \in InputTables : tables = [o \in {1} |-> t] /\ loaded = t
    /\ sect = [op |-> "mavrovis"]
    /\ corr = NoCorr

MavrovisGreedFear ==
    /\ pc = "loaded"
    /\ tables' = [tables EXCEPT ![df] = mavrovis_calculate_greed_fear_index(@)]
    /\ pc' = "greed_fear"
    /\ UNCHANGED <<df, loaded, sect, corr>>

MavrovisVolatility ==
    /\ pc = "greed_fear"
    /\ tables' = [tables EXCEPT ![df] = mavrovis_calculate_volatility_metrics(@)]
    /\ pc' = "volatility"
    /\ UNCHANGED <<df, loaded, sect, corr>>

NextMavrovis == MavrovisGreedFear \/ MavrovisVolatility

SpecMavrovis == InitMavrovis /\ [][NextMavrovis]_vars

\* two tables with the same columns, rows and values (NaN where NaN)
SameTable(x, y) ==
    /\ DOMAIN x = DOMAIN y
    /\ \A c \in DOMAIN x :
          /\ Len(x[c]) = Len(y[c])
          /\ \A t \in 1..Len(x[c]) : FSame(x[c][t], y[c][t])

\* C29: on every OHLCV table the two functions of mavrovis.py produce the
\* columns and values the functions of the same name of
\* 4_Risk_Analysis_Wizard.py produce.
C29_CopiesEquivalent ==
    /\ pc = "greed_fear" => SameTable(T, calculate_greed_fear_index(loaded))
    /\ pc = "volatility" =>
          SameTable(T, calculate_volatility_metrics(calculate_greed_fear_index(loaded)))

\* a table of mavrovis.py with a defined Greed_Fear_Index and a defined,
\* positive Historical_Volatility on its last bar
C29_Witness ==
    /\ pc = "volatility"
    /\ sect.op = "mavrovis"
    /\ IsNum(T["Greed_Fear_Index"][Bars])
    /\ FGt(T["Historical_Volatility"][Bars], I(0))
    /\ FGt(T["ATR_Percentage"][Bars], I(0))

\* the rows of the all-sectors table dated d
HeatRowsDated(d) == {j \in DOMAIN HeatRows : HeatRows[j].date = d}

\* the bars dated d of every mapped instrument that has a table
AllBarsDated(d) == UNION {BarsDated(s, d) : s \in MappedSectors}

\* C30: in the table calculate_all_sectors_value_proxy returns, a pair of
\* sector and date has at most one row, and for every date d the values of
\* the rows dated d add up to the sum of (Close - Open) * Volume over the
\* bars dated d, inside the range, of all mapped instruments with a table:
\* every such bar is counted once; outside the range there are no rows.
C30_EveryBarCountedOnce ==
    (sect.op = "all_sectors" /\ pc \in {"all_sectors", "heatmap"}) =>
        /\ \A i \in DOMAIN HeatRows, j \in DOMAIN HeatRows :
              (HeatRows[i].sector = HeatRows[j].sector /\ HeatRows[i].date = HeatRows[j].date)
                  => i = j
        /\ \A d \in Dates :
              IF InDateRange(d, sect.start_date, sect.end_date)
              THEN RowSum(HeatRowsDated(d)) = BarSum(AllBarsDated(d))
              ELSE HeatRowsDated(d) = {}

\* a date inside the range with a bar of each of three instruments and a row
\* of each of two sectors, and a date outside the range with bars
C30_Witness ==
    /\ pc = "all_sectors"
    /\ \E d \in Dates :
          /\ Cardinality(AllBarsDated(d)) = 3
          /\ Cardinality(HeatRowsDated(d)) = 2
          /\ RowSum(HeatRowsDated(d)) # 0
    /\ \E d \in Dates :
          ~InDateRange(d, sect.start_date, sect.end_date) /\ AllBarsDated(d) # {}

====
